---- MODULE Spec2Model ----
(***************************************************************************)
(* The bedrock-service (Go, model fallback invocation) and the             *)
(* cache-service (Node, response memoization) as one state machine.        *)
(* Every blocking call (InvokeModel, redis get/setEx, axios.post) ends a   *)
(* step; the code between two blocking calls is one action.                *)
(***************************************************************************)
EXTENDS Integers, Sequences, FiniteSets, TLC

(***************************************************************************)
(* Bounds of the model.                                                    *)
(***************************************************************************)
\* How many probe calls of one start-up the provider answers without error.
MaxAvailable == 2
\* CacheSpec starts with bedrock-service up: the catalogue entries, counted
\* from the first, whose start-up probe may have succeeded.
ServingModels == 2

(***************************************************************************)
(* Strings.  A Go string is kept as a TLA+ string; Chars gives its         *)
(* characters so that strings.ToLower and strings.Contains are computed.   *)
(***************************************************************************)
Chars(s) ==
  CASE
    s = "anthropic.claude-3-5-sonnet-20241022-v2:0" ->
      <<"a","n","t","h","r","o","p","i","c",".","c","l","a","u","d","e","-","3","-","5","-","s","o","n","n","e","t","-","2","0","2","4","1","0","2","2","-","v","2",":","0">>
  []
    s = "Claude 3.5 Sonnet v2" ->
      <<"C","l","a","u","d","e"," ","3",".","5"," ","S","o","n","n","e","t"," ","v","2">>
  []
    s = "anthropic.claude-3-5-sonnet-20240620-v1:0" ->
      <<"a","n","t","h","r","o","p","i","c",".","c","l","a","u","d","e","-","3","-","5","-","s","o","n","n","e","t","-","2","0","2","4","0","6","2","0","-","v","1",":","0">>
  []
    s = "Claude 3.5 Sonnet" ->
      <<"C","l","a","u","d","e"," ","3",".","5"," ","S","o","n","n","e","t">>
  []
    s = "anthropic.claude-3-5-haiku-20241022-v1:0" ->
      <<"a","n","t","h","r","o","p","i","c",".","c","l","a","u","d","e","-","3","-","5","-","h","a","i","k","u","-","2","0","2","4","1","0","2","2","-","v","1",":","0">>
  []
    s = "Claude 3.5 Haiku" ->
      <<"C","l","a","u","d","e"," ","3",".","5"," ","H","a","i","k","u">>
  []
    s = "anthropic.claude-3-sonnet-20240229-v1:0" ->
      <<"a","n","t","h","r","o","p","i","c",".","c","l","a","u","d","e","-","3","-","s","o","n","n","e","t","-","2","0","2","4","0","2","2","9","-","v","1",":","0">>
  []
    s = "Claude 3 Sonnet" ->
      <<"C","l","a","u","d","e"," ","3"," ","S","o","n","n","e","t">>
  []
    s = "anthropic.claude-3-haiku-20240307-v1:0" ->
      <<"a","n","t","h","r","o","p","i","c",".","c","l","a","u","d","e","-","3","-","h","a","i","k","u","-","2","0","2","4","0","3","0","7","-","v","1",":","0">>
  []
    s = "Claude 3 Haiku" ->
      <<"C","l","a","u","d","e"," ","3"," ","H","a","i","k","u">>
  []
    s = "anthropic.claude-3-opus-20240229-v1:0" ->
      <<"a","n","t","h","r","o","p","i","c",".","c","l","a","u","d","e","-","3","-","o","p","u","s","-","2","0","2","4","0","2","2","9","-","v","1",":","0">>
  []
    s = "Claude 3 Opus" ->
      <<"C","l","a","u","d","e"," ","3"," ","O","p","u","s">>
  []
    s = "anthropic.claude-v2:1" ->
      <<"a","n","t","h","r","o","p","i","c",".","c","l","a","u","d","e","-","v","2",":","1">>
  []
    s = "Claude v2.1" ->
      <<"C","l","a","u","d","e"," ","v","2",".","1">>
  []
    s = "anthropic.claude-v2" ->
      <<"a","n","t","h","r","o","p","i","c",".","c","l","a","u","d","e","-","v","2">>
  []
    s = "Claude v2" ->
      <<"C","l","a","u","d","e"," ","v","2">>
  []
    s = "anthropic.claude-instant-v1" ->
      <<"a","n","t","h","r","o","p","i","c",".","c","l","a","u","d","e","-","i","n","s","t","a","n","t","-","v","1">>
  []
    s = "Claude Instant" ->
      <<"C","l","a","u","d","e"," ","I","n","s","t","a","n","t">>
  []
    s = "" ->
      <<>>
  []
    s = "Haiku" ->
      <<"H","a","i","k","u">>
  []
    s = "SONNET V2" ->
      <<"S","O","N","N","E","T"," ","V","2">>
  []
    s = "claude-v2" ->
      <<"c","l","a","u","d","e","-","v","2">>
  []
    s = "gpt" ->
      <<"g","p","t">>

\* strings.ToLower on one character (ASCII letters).
LowerChar(c) ==
  CASE c = "A" -> "a"
    [] c = "B" -> "b"
    [] c = "C" -> "c"
    [] c = "D" -> "d"
    [] c = "E" -> "e"
    [] c = "F" -> "f"
    [] c = "G" -> "g"
    [] c = "H" -> "h"
    [] c = "I" -> "i"
    [] c = "J" -> "j"
    [] c = "K" -> "k"
    [] c = "L" -> "l"
    [] c = "M" -> "m"
    [] c = "N" -> "n"
    [] c = "O" -> "o"
    [] c = "P" -> "p"
    [] c = "Q" -> "q"
    [] c = "R" -> "r"
    [] c = "S" -> "s"
    [] c = "T" -> "t"
    [] c = "U" -> "u"
    [] c = "V" -> "v"
    [] c = "W" -> "w"
    [] c = "X" -> "x"
    [] c = "Y" -> "y"
    [] c = "Z" -> "z"
    [] OTHER -> c

\* strings.ToLower
ToLower(s) == [i \in 1..Len(s) |-> LowerChar(s[i])]

\* strings.Contains: substr occurs in s at some offset (the empty string always does).
Contains(s, substr) ==
  \E i \in 0..(Len(s) - Len(substr)) : SubSeq(s, i + 1, i + Len(substr)) = substr

(***************************************************************************)
(* bedrock-service: the catalogue and the values GenerateText handles.     *)
(***************************************************************************)
\* A ModelInfo literal of NewBedrockClient; Available is Go's zero value.
ModelInfo(id, name, messageAPI) ==
  [ID |-> id, Name |-> name, Available |-> FALSE, MessageAPI |-> messageAPI]

\* The availableModels slice NewBedrockClient builds.
Catalogue ==
  << ModelInfo("anthropic.claude-3-5-sonnet-20241022-v2:0", "Claude 3.5 Sonnet v2", TRUE),
     ModelInfo("anthropic.claude-3-5-sonnet-20240620-v1:0", "Claude 3.5 Sonnet", TRUE),
     ModelInfo("anthropic.claude-3-5-haiku-20241022-v1:0", "Claude 3.5 Haiku", TRUE),
     ModelInfo("anthropic.claude-3-sonnet-20240229-v1:0", "Claude 3 Sonnet", TRUE),
     ModelInfo("anthropic.claude-3-haiku-20240307-v1:0", "Claude 3 Haiku", TRUE),
     ModelInfo("anthropic.claude-3-opus-20240229-v1:0", "Claude 3 Opus", TRUE),
     ModelInfo("anthropic.claude-v2:1", "Claude v2.1", FALSE),
     ModelInfo("anthropic.claude-v2", "Claude v2", FALSE),
     ModelInfo("anthropic.claude-instant-v1", "Claude Instant", FALSE) >>

\* Default max_tokens and temperature (in tenths) of GenerateText.
DefaultMaxTokens == 2000
DefaultTemperature == 7

\* The fixed system prompt of the message API payload.
SystemPrompt == "You are a helpful AI assistant with access to conversation history and uploaded files. ..."

\* The legacy template: fmt.Sprintf wraps the prompt between two fixed parts.
EnhancedPrompt(prompt) ==
  << "\n\nHuman: You are a helpful AI assistant with conversation memory and file analysis capabilities. ...\n\n",
     prompt,
     "\n\nAssistant:" >>

\* A payload in the structured-message shape for every model.
RequestBodyAlwaysMessages(model, prompt, maxTokens, temperature) ==
  [anthropic_version |-> "bedrock-2023-05-31",
   max_tokens |-> maxTokens,
   system |-> SystemPrompt,
   messages |-> << [role |-> "user", content |-> prompt] >>,
   temperature |-> temperature]

\* requestBody: the payload GenerateText builds for one candidate.
RequestBody(model, prompt, maxTokens, temperature) ==
  IF model.MessageAPI
    THEN [anthropic_version |-> "bedrock-2023-05-31",
          max_tokens |-> maxTokens,
          system |-> SystemPrompt,
          messages |-> << [role |-> "user", content |-> prompt] >>,
          temperature |-> temperature]
    ELSE [prompt |-> EnhancedPrompt(prompt),
          max_tokens_to_sample |-> maxTokens,
          temperature |-> temperature]

\* JSON values of a response body, tagged with their JSON type.
Str(s) == [t |-> "str", v |-> s]
Arr(a) == [t |-> "arr", v |-> a]
Obj(o) == [t |-> "obj", v |-> o]
\* Bytes that are no JSON object.
Raw(s) == [t |-> "raw", v |-> s]

\* The response bodies the provider may send.
Bodies ==
  { Raw("<html>502 Bad Gateway</html>"),
    Obj([content |-> Arr(<< Obj([type |-> Str("text"), text |-> Str("Hello")]) >>)]),
    Obj([content |-> Arr(<< Obj([type |-> Str("text"), text |-> Str("Bonjour")]) >>)]),
    Obj([content |-> Arr(<< Obj([type |-> Str("text"), text |-> Str("")]) >>)]),
    Obj([content |-> Arr(<< >>)]),
    Obj([completion |-> Str("Hi")]),
    Obj([completion |-> Str("")]),
    Obj([message |-> Str("Malformed input request")]) }

\* The errors InvokeModel may return.
InvokeErrors == {"ThrottlingException", "AccessDeniedException"}

\* What one InvokeModel call returns: (resp, err).
InvokeResults ==
  {[err |-> e, Body |-> Raw("")] : e \in InvokeErrors}
    \cup {[err |-> "nil", Body |-> b] : b \in Bodies}

\* No InvokeModel call has returned yet.
NoResult == [err |-> "nil", Body |-> Raw("")]

\* lastError of GenerateText; nil before the first failure.
NilError == [kind |-> "nil", detail |-> ""]

\* The third return value of GenerateText.
NoErr == [kind |-> "nil", last |-> NilError]
NoModelsErr == [kind |-> "no available models found", last |-> NilError]
AllFailedErr(lastError) == [kind |-> "all available models failed. Last error", last |-> lastError]

\* First loop of GenerateText: the first available model whose name or id
\* contains the preference, case-insensitively.
MatchesPreferred(model, preferredModel) ==
  \/ Contains(ToLower(Chars(model.Name)), ToLower(Chars(preferredModel)))
  \/ Contains(ToLower(Chars(model.ID)), ToLower(Chars(preferredModel)))

RECURSIVE FindPreferred(_, _, _)
FindPreferred(models, preferredModel, i) ==
  IF i > Len(models)
    THEN << >>
    ELSE IF models[i].Available /\ MatchesPreferred(models[i], preferredModel)
           THEN << models[i] >>
           ELSE FindPreferred(models, preferredModel, i + 1)

\* The second loop without its "already added" check.
RECURSIVE AddFallbacksNoFoundCheck(_, _, _)
AddFallbacksNoFoundCheck(models, modelsToTry, i) ==
  IF i > Len(models)
    THEN modelsToTry
    ELSE IF models[i].Available
           THEN AddFallbacksNoFoundCheck(models, Append(modelsToTry, models[i]), i + 1)
           ELSE AddFallbacksNoFoundCheck(models, modelsToTry, i + 1)

\* Second loop of GenerateText: every available model not yet in the list.
RECURSIVE AddFallbacks(_, _, _)
AddFallbacks(models, modelsToTry, i) ==
  IF i > Len(models)
    THEN modelsToTry
    ELSE IF models[i].Available
              /\ ~ \E j \in 1..Len(modelsToTry) : modelsToTry[j].ID = models[i].ID
           THEN AddFallbacks(models, Append(modelsToTry, models[i]), i + 1)
           ELSE AddFallbacks(models, modelsToTry, i + 1)

\* A selection that yields no candidate when a preference is given and no
\* available model matches it.
ModelsToTryStrict(models, preferredModel) ==
  IF preferredModel # "" /\ FindPreferred(models, preferredModel, 1) = << >>
    THEN << >>
    ELSE AddFallbacks(models,
                      IF preferredModel # "" THEN FindPreferred(models, preferredModel, 1) ELSE << >>,
                      1)

\* modelsToTry as GenerateText builds it from bc.availableModels.
ModelsToTry(models, preferredModel) ==
  AddFallbacks(models,
               IF preferredModel # "" THEN FindPreferred(models, preferredModel, 1) ELSE << >>,
               1)

\* json.Unmarshal into map[string]interface{} succeeds on a JSON object.
UnmarshalOK(body) == body.t = "obj"

\* The type assertions that extract the text of a parsed response.
ExtractText(model, response) ==
  IF model.MessageAPI
    THEN IF /\ "content" \in DOMAIN response.v
            /\ response.v.content.t = "arr"
            /\ Len(response.v.content.v) > 0
            /\ response.v.content.v[1].t = "obj"
            /\ "text" \in DOMAIN response.v.content.v[1].v
            /\ response.v.content.v[1].v.text.t = "str"
           THEN [ok |-> TRUE, text |-> response.v.content.v[1].v.text.v]
           ELSE [ok |-> FALSE, text |-> ""]
    ELSE IF /\ "completion" \in DOMAIN response.v
            /\ response.v.completion.t = "str"
           THEN [ok |-> TRUE, text |-> response.v.completion.v]
           ELSE [ok |-> FALSE, text |-> ""]

(***************************************************************************)
(* State.                                                                  *)
(***************************************************************************)
\* The callers whose requests the model follows; Spec lets one of them act.
Clients == {"c1", "c2"}
Sequential == {"c1"}

\* The prompts and preferences callers send.
Prompts == {"", "What is TLA+?", "Tell me a joke"}
DirectPrompts == {"", "What is TLA+?"}
PreferredModels == {"", "Haiku", "SONNET V2", "claude-v2", "gpt"}
MaxTokensInputs == {0, 100}
TemperatureInputs == {0, 5}

VARIABLES
  build,            \* which bedrock-service is deployed: "multiModel" or "singleModel"
  bc,               \* main's bc: "unset", "nil" or "client"
  phase,            \* main of bedrock-service: "start", "probing", "serving", "exited"
  availableModels,  \* bc.availableModels
  probeIdx,         \* loop index of TestModelAvailability (1-based)
  probeErrs,        \* history: whether each probe made so far returned an error
  gen,              \* per caller: the generateHandler invocation serving it
  cs,               \* per caller: the cache-service POST /generate handler serving it
  store,            \* the redis keyspace: per key the value and its remaining time to live
  redisUp           \* whether redis answers commands

vars == << build, bc, phase, availableModels, probeIdx, probeErrs, gen, cs, store, redisUp >>
cacheVars == << cs, store, redisUp >>

\* GenerateRequest as decoded from a body.
GenerateRequest(prompt, model, maxTokens, temperature) ==
  [Prompt |-> prompt, Model |-> model, MaxTokens |-> maxTokens, Temperature |-> temperature]

\* What generateHandler writes to the http.ResponseWriter.
HttpReply(status, response, modelUsed, message, err) ==
  [status |-> status, Response |-> response, ModelUsed |-> modelUsed,
   message |-> message, err |-> err]
NoReply == HttpReply(0, "", "", "", NoErr)

\* A handler slot with no request in it.
IdleGen ==
  [pc |-> "idle",
   route |-> "",           \* the route the handler serves
   req |-> GenerateRequest("", "", 0, 0),
   maxTokens |-> 0, temperature |-> 0,
   modelsToTry |-> << >>, idx |-> 0, lastError |-> NilError,
   invoked |-> << >>,      \* history: the InvokeModel calls made, in order
   errs |-> << >>,         \* history: the error of each failed candidate, in order
   got |-> NoResult,       \* history: what the latest InvokeModel call returned
   deadlineAt |-> 0,       \* history: the InvokeModel call (by number) during which the
                           \* server's WriteTimeout ran out; 0 while it has not
   staleAt |-> 0,          \* history: the InvokeModel call (by number) during which an
                           \* Available flag first changed after selection; 0 while none has
   reply |-> NoReply]

(***************************************************************************)
(* cache-service: keys, entries and the locals of POST /generate.          *)
(***************************************************************************)
\* Seconds a cached response lives (setEx).
CacheTTL == 3600

\* crypto.createHash('md5').update(prompt).digest('hex') of the prompts sent.
MD5Hex(prompt) ==
  CASE prompt = "What is TLA+?" -> "e7998dcfb4ceaab4f428db751c154925"
    [] prompt = "Tell me a joke" -> "1c039df35e0209df2a06ff38bd6e73fd"

\* getCacheKey: the template string `prompt:${md5}` as its two parts.
getCacheKey(prompt) == << "prompt:", MD5Hex(prompt) >>
CacheKeys == {getCacheKey(p) : p \in Prompts \ {""}}
NoKey == << "", "" >>

\* A key redis does not hold. History kept with a key: age, the seconds since
\* its value was written; expired, its last value ran out of time to live;
\* flushed, its last value was removed by flushAll.
NoEntry == [present |-> FALSE, value |-> "", ttl |-> 0, age |-> 0, expired |-> FALSE,
            flushed |-> FALSE]

\* A key no generate request writes: the digest of the empty prompt.
UnknownKey == << "prompt:", "d41d8cd98f00b204e9800998ecf8427e" >>

\* What the cache-service sends back: status and the JSON fields it sets.
CacheReply(status, response, cached, error) ==
  [status |-> status, response |-> response, cached |-> cached, error |-> error]
NoCacheReply == CacheReply(0, "", FALSE, "")
\* The reply of GET /stats; info is the text redis reports, not interpreted.
StatsReply(dbSize, info) ==
  [status |-> 200, response |-> "", cached |-> FALSE, error |-> "", cacheSize |-> dbSize, info |-> info]
\* A reply that carries a message field.
CacheMessage(status, message) ==
  [status |-> status, response |-> "", cached |-> FALSE, error |-> "", message |-> message]

\* The fields of a request body other than prompt and useCache, which the
\* cache-service does not read; 0 and "" stand for an absent field.
GenerateParams(maxTokens, temperature, model) ==
  [max_tokens |-> maxTokens, temperature |-> temperature, model |-> model]
NoParams == GenerateParams(0, 0, "")

\* The previous request of a caller, when it was a cache-enabled success and
\* nothing has touched the store since.
NoPrev == [prompt |-> "", response |-> "", params |-> NoParams]

\* A cache-service handler slot with no request in it.
IdleCache ==
  [pc |-> "idle",
   route |-> "",           \* the route the handler serves
   key |-> NoKey,          \* req.params.key of GET /cache/:key
   dbSize |-> 0,           \* dbSize of GET /stats
   prompt |-> "", useCache |-> TRUE, cacheKey |-> NoKey,
   params |-> NoParams,    \* the rest of req.body, never read
   bedrockResponse |-> NoReply, aiResponse |-> "",
   refused |-> FALSE,      \* axios.post found no bedrock-service listening
   lookup |-> "none",      \* history: outcome of redisClient.get
   write |-> "none",       \* history: outcome of redisClient.setEx
   downstream |-> 0,       \* history: axios.post calls made by this request
   replacedTtl |-> 0,      \* history: time the entry replaced by the write had left
   got |-> NoResult,       \* history: what the provider returned behind bedrockResponse
   prev |-> NoPrev,        \* history: see NoPrev
   prevFailed |-> FALSE,   \* history: see PrevFailed
   chained |-> FALSE,      \* history: nothing touched the store since the response
   res |-> NoCacheReply]

Init ==
  /\ build = "multiModel"
  /\ bc = "unset"
  /\ phase = "start"
  /\ availableModels = << >>
  /\ probeIdx = 0
  /\ probeErrs = << >>
  /\ gen = [c \in Clients |-> IdleGen]
  /\ cs = [c \in Clients |-> IdleCache]
  /\ store = [k \in CacheKeys |-> NoEntry]
  /\ redisUp = TRUE

(***************************************************************************)
(* bedrock-service start-up.                                               *)
(***************************************************************************)
\* main: NewBedrockClient; a configuration error ends the process (log.Fatalf).
NewBedrockClient(cfgErr) ==
  /\ build = "multiModel"
  /\ phase = "start"
  /\ bc' = IF cfgErr THEN "nil" ELSE "client"
  /\ IF cfgErr
       THEN /\ phase' = "exited"
            /\ UNCHANGED << availableModels, probeIdx >>
       ELSE /\ phase' = "probing"
            /\ availableModels' = Catalogue
            /\ probeIdx' = 1
  /\ UNCHANGED << build, probeErrs, gen, cacheVars >>

NumAvailable(models) == Cardinality({i \in 1..Len(models) : models[i].Available})

\* A probe loop that ends at the first probe that fails.
TestModelAvailabilityStopsOnError(err) ==
  /\ phase = "probing"
  /\ probeIdx <= Len(availableModels)
  /\ ~err => NumAvailable(availableModels) < MaxAvailable
  /\ availableModels' = [availableModels EXCEPT ![probeIdx].Available = ~err]
  /\ probeIdx' = IF err THEN Len(availableModels) + 1 ELSE probeIdx + 1
  /\ probeErrs' = Append(probeErrs, err)
  /\ UNCHANGED << build, bc, phase, gen, cacheVars >>

\* A probe loop that moves an entry whose probe succeeded to the front.
TestModelAvailabilityPromotes(err) ==
  /\ phase = "probing"
  /\ probeIdx <= Len(availableModels)
  /\ ~err => NumAvailable(availableModels) < MaxAvailable
  /\ availableModels' =
       IF err
         THEN [availableModels EXCEPT ![probeIdx].Available = FALSE]
         ELSE << [availableModels[probeIdx] EXCEPT !.Available = TRUE] >>
                \o SubSeq(availableModels, 1, probeIdx - 1)
                \o SubSeq(availableModels, probeIdx + 1, Len(availableModels))
  /\ probeIdx' = probeIdx + 1
  /\ probeErrs' = Append(probeErrs, err)
  /\ UNCHANGED << build, bc, phase, gen, cacheVars >>

\* One iteration of TestModelAvailability: the probe call returns err or not.
TestModelAvailability(err) ==
  /\ phase = "probing"
  /\ probeIdx <= Len(availableModels)
  /\ ~err => NumAvailable(availableModels) < MaxAvailable
  /\ availableModels' = [availableModels EXCEPT ![probeIdx].Available = ~err]
  /\ probeIdx' = probeIdx + 1
  /\ probeErrs' = Append(probeErrs, err)
  /\ UNCHANGED << build, bc, phase, gen, cacheVars >>

\* A main that serves while the probe loop is still running.
ListenAndServeWhileProbing ==
  /\ phase = "probing"
  /\ phase' = "serving"
  /\ UNCHANGED << build, bc, probeErrs, availableModels, probeIdx, gen, cacheVars >>

\* main after the probe loop: routes registered, srv.ListenAndServe.
ListenAndServe ==
  /\ phase = "probing"
  /\ probeIdx > Len(availableModels)
  /\ phase' = "serving"
  /\ UNCHANGED << build, bc, probeErrs, availableModels, probeIdx, gen, cacheVars >>

(***************************************************************************)
(* bedrock-service POST /generate: generateHandler and GenerateText.       *)
(***************************************************************************)
\* The handler writes its response and returns.
Respond(g, reply) == [g EXCEPT !.pc = "done", !.reply = reply]

\* A loop that sends the payload to the candidate at i and, without awaiting
\* the result, to the one after it.
TryFromFanOut(g, i) ==
  IF i > Len(g.modelsToTry)
    THEN Respond(g, HttpReply(500, "", "", "Error generating response", AllFailedErr(g.lastError)))
    ELSE LET call(k) == [ModelId |-> g.modelsToTry[k].ID,
                         Body |-> RequestBody(g.modelsToTry[k], g.req.Prompt,
                                              g.maxTokens, g.temperature)]
         IN [g EXCEPT !.pc = "calling",
                      !.idx = i,
                      !.invoked = IF i < Len(g.modelsToTry)
                                    THEN @ \o << call(i), call(i + 1) >>
                                    ELSE Append(@, call(i))]

\* A loop that reads the catalogue again at every turn and passes over a
\* candidate whose entry is no longer available.
RECURSIVE TryFromLive(_, _)
TryFromLive(g, i) ==
  IF i > Len(g.modelsToTry)
    THEN Respond(g, HttpReply(500, "", "", "Error generating response", AllFailedErr(g.lastError)))
    ELSE IF \E j \in 1..Len(availableModels) :
              availableModels[j].ID = g.modelsToTry[i].ID /\ ~availableModels[j].Available
           THEN TryFromLive(g, i + 1)
           ELSE [g EXCEPT !.pc = "calling",
                          !.idx = i,
                          !.invoked = Append(@, [ModelId |-> g.modelsToTry[i].ID,
                                                 Body |-> RequestBody(g.modelsToTry[i], g.req.Prompt,
                                                                      g.maxTokens, g.temperature)])]

\* Top of the candidate loop at index i: past the end GenerateText returns
\* the failure; otherwise the payload is built and InvokeModel is called.
TryFrom(g, i) ==
  IF i > Len(g.modelsToTry)
    THEN Respond(g, HttpReply(500, "", "", "Error generating response", AllFailedErr(g.lastError)))
    ELSE [g EXCEPT !.pc = "calling",
                   !.idx = i,
                   !.invoked = Append(@, [ModelId |-> g.modelsToTry[i].ID,
                                          Body |-> RequestBody(g.modelsToTry[i], g.req.Prompt,
                                                               g.maxTokens, g.temperature)])]

\* A failure that ends the loop at once instead of continuing.
CandidateFailedStops(g, e) ==
  Respond([g EXCEPT !.lastError = e, !.errs = Append(@, e)],
          HttpReply(500, "", "", "Error generating response", AllFailedErr(e)))

\* A failure that keeps the first error instead of overwriting it.
CandidateFailedKeepsFirst(g, e) ==
  TryFrom([g EXCEPT !.lastError = IF @ = NilError THEN e ELSE @, !.errs = Append(@, e)],
          g.idx + 1)

\* A failure after which the first candidate is tried a second time.
CandidateFailedRetriesOnce(g, e) ==
  TryFrom([g EXCEPT !.lastError = e, !.errs = Append(@, e)],
          IF Len(g.invoked) = g.idx THEN g.idx ELSE g.idx + 1)

\* A candidate failed: lastError is overwritten and the loop continues.
CandidateFailed(g, e) ==
  TryFrom([g EXCEPT !.lastError = e, !.errs = Append(@, e)], g.idx + 1)

\* GenerateText without the check for an empty candidate list.
GenerateTextNoEmptyCheck(g, models) ==
  TryFrom([g EXCEPT
             !.maxTokens = IF g.req.MaxTokens = 0 THEN DefaultMaxTokens ELSE g.req.MaxTokens,
             !.temperature = IF g.req.Temperature = 0 THEN DefaultTemperature ELSE g.req.Temperature,
             !.modelsToTry = ModelsToTry(models, g.req.Model)],
          1)

\* GenerateText passing maxTokens and temperature on as received.
GenerateTextKeepsZero(g, models) ==
  LET sel == [g EXCEPT
                !.maxTokens = g.req.MaxTokens,
                !.temperature = g.req.Temperature,
                !.modelsToTry = ModelsToTry(models, g.req.Model)]
  IN IF Len(sel.modelsToTry) = 0
       THEN Respond(sel, HttpReply(500, "", "", "Error generating response", NoModelsErr))
       ELSE TryFrom(sel, 1)

\* GenerateText up to its first InvokeModel: defaults, candidate selection.
GenerateText(g, models) ==
  LET sel == [g EXCEPT
                !.maxTokens = IF g.req.MaxTokens = 0 THEN DefaultMaxTokens ELSE g.req.MaxTokens,
                !.temperature = IF g.req.Temperature = 0 THEN DefaultTemperature ELSE g.req.Temperature,
                !.modelsToTry = ModelsToTry(models, g.req.Model)]
  IN IF Len(sel.modelsToTry) = 0
       THEN Respond(sel, HttpReply(500, "", "", "Error generating response", NoModelsErr))
       ELSE TryFrom(sel, 1)

\* generateHandler without the check of the prompt.
HandleGenerateNoPromptCheck(req, models) ==
  GenerateText([IdleGen EXCEPT !.route = "POST /generate", !.req = req], models)

\* generateHandler from the decoded request to the first blocking call.
HandleGenerate(req, models) ==
  LET g == [IdleGen EXCEPT !.route = "POST /generate", !.req = req]
  IN IF req.Prompt = ""
       THEN Respond(g, HttpReply(400, "", "", "Prompt is required", NoErr))
       ELSE GenerateText(g, models)

\* The success path reporting the model id in place of its display name.
AfterInvokeReturnsID(g, out) ==
  LET model == g.modelsToTry[g.idx]
  IN IF out.err # "nil"
       THEN CandidateFailed(g, [kind |-> "invoke", detail |-> out.err])
       ELSE IF ~UnmarshalOK(out.Body)
              THEN CandidateFailed(g, [kind |-> "error parsing response", detail |-> ""])
              ELSE LET ex == ExtractText(model, out.Body)
                   IN IF ex.ok
                        THEN Respond(g, HttpReply(200, ex.text, model.ID, "", NoErr))
                        ELSE CandidateFailed(g, [kind |-> "unexpected response format from model",
                                                 detail |-> model.Name])

\* InvokeModel returned for the current candidate: error, parse, extract.
AfterInvoke(g, out) ==
  LET model == g.modelsToTry[g.idx]
  IN IF out.err # "nil"
       THEN CandidateFailed(g, [kind |-> "invoke", detail |-> out.err])
       ELSE IF ~UnmarshalOK(out.Body)
              THEN CandidateFailed(g, [kind |-> "error parsing response", detail |-> ""])
              ELSE LET ex == ExtractText(model, out.Body)
                   IN IF ex.ok
                        THEN Respond(g, HttpReply(200, ex.text, model.Name, "", NoErr))
                        ELSE CandidateFailed(g, [kind |-> "unexpected response format from model",
                                                 detail |-> model.Name])

(***************************************************************************)
(* The single-model bedrock-service (bedrock-service/main.go).             *)
(***************************************************************************)
\* modelID of its GenerateText.
SingleModelID == "anthropic.claude-3-haiku-20240307-v1:0"

\* requestBody of its GenerateText (temperature in tenths).
SingleRequestBody(prompt) ==
  [anthropic_version |-> "bedrock-2023-05-31",
   max_tokens |-> 1000,
   messages |-> << [role |-> "user", content |-> prompt] >>,
   temperature |-> 7]

\* What its GenerateText returns when the response carries no text.
Placeholder == "Unable to generate response"

\* The handler goroutine panicked: net/http recovers, closes the connection
\* and the caller receives no response (status 0).
NilClientPanic == [kind |-> "panic: nil pointer dereference", last |-> NilError]
Aborted == HttpReply(0, "", "", "", NilClientPanic)

\* The text it returns for a parsed response: content[0].text or the placeholder.
SingleExtractText(response) ==
  IF /\ "content" \in DOMAIN response.v
     /\ response.v.content.t = "arr"
     /\ Len(response.v.content.v) > 0
     /\ response.v.content.v[1].t = "obj"
     /\ "text" \in DOMAIN response.v.content.v[1].v
     /\ response.v.content.v[1].v.text.t = "str"
    THEN response.v.content.v[1].v.text.v
    ELSE Placeholder

\* Its generateHandler up to the InvokeModel call; bc.client of a nil bc panics.
SingleHandleGenerate(prompt, client) ==
  LET g == [IdleGen EXCEPT !.route = "POST /generate", !.req = GenerateRequest(prompt, "", 0, 0)]
  IN IF prompt = ""
       THEN Respond(g, HttpReply(400, "", "", "Prompt is required", NoErr))
       ELSE IF client = "nil"
              THEN Respond(g, Aborted)
              ELSE [g EXCEPT !.pc = "calling",
                             !.idx = 1,
                             !.invoked = << [ModelId |-> SingleModelID,
                                             Body |-> SingleRequestBody(prompt)] >>]

\* Its InvokeModel returned: error, parse, extract; the handler answers.
SingleAfterInvoke(g, out) ==
  IF out.err # "nil"
    THEN Respond([g EXCEPT !.errs = Append(@, [kind |-> "invoke", detail |-> out.err])],
                 HttpReply(500, "", "", "Error generating response",
                           [kind |-> "error invoking Bedrock",
                            last |-> [kind |-> "invoke", detail |-> out.err]]))
    ELSE IF ~UnmarshalOK(out.Body)
           THEN Respond([g EXCEPT !.errs = Append(@, [kind |-> "error parsing response", detail |-> ""])],
                        HttpReply(500, "", "", "Error generating response",
                                  [kind |-> "error parsing response", last |-> NilError]))
           ELSE Respond(g, HttpReply(200, SingleExtractText(out.Body), "", "", NoErr))

\* A caller posts a well-formed body to bedrock-service /generate.
generateHandler(c, req) ==
  /\ phase = "serving"
  /\ gen[c].pc = "idle"
  /\ gen' = [gen EXCEPT ![c] = IF build = "singleModel"
                                   THEN SingleHandleGenerate(req.Prompt, bc)
                                   ELSE HandleGenerate(req, availableModels)]
  /\ UNCHANGED << build, bc, probeErrs, phase, availableModels, probeIdx, cacheVars >>

\* A body json.Decode rejects.
generateHandlerBadBody(c) ==
  /\ phase = "serving"
  /\ gen[c].pc = "idle"
  /\ gen' = [gen EXCEPT ![c] = Respond([IdleGen EXCEPT !.route = "POST /generate"],
                                       HttpReply(400, "", "", "Invalid request body", NoErr))]
  /\ UNCHANGED << build, bc, probeErrs, phase, availableModels, probeIdx, cacheVars >>

\* A return path that clears the Available flag of a model whose call failed.
InvokeModelReturnsClearsFlag(c, out) ==
  /\ gen[c].pc = "calling"
  /\ gen' = [gen EXCEPT ![c] = AfterInvoke([gen[c] EXCEPT !.got = out], out)]
  /\ availableModels' =
       [i \in 1..Len(availableModels) |->
          IF out.err # "nil" /\ availableModels[i].ID = gen[c].modelsToTry[gen[c].idx].ID
            THEN [availableModels[i] EXCEPT !.Available = FALSE]
            ELSE availableModels[i]]
  /\ UNCHANGED << build, bc, probeErrs, phase, probeIdx, cacheVars >>

\* The pending InvokeModel of caller c returns.
InvokeModelReturns(c, out) ==
  /\ gen[c].pc = "calling"
  /\ gen' = [gen EXCEPT ![c] = IF build = "singleModel"
                                   THEN SingleAfterInvoke([gen[c] EXCEPT !.got = out], out)
                                   ELSE AfterInvoke([gen[c] EXCEPT !.got = out], out)]
  /\ UNCHANGED << build, bc, probeErrs, phase, availableModels, probeIdx, cacheVars >>

(***************************************************************************)
(* bedrock-service GET /health and GET /models (multi-model service).      *)
(***************************************************************************)
\* A GetAvailableModels that lists every entry, available or not.
GetAvailableModelsAll(models) == [i \in 1..Len(models) |-> models[i].Name]

\* GetAvailableModels: the names of the available models, in catalogue order.
GetAvailableModels(models) ==
  LET available == SelectSeq(models, LAMBDA m : m.Available)
  IN [i \in 1..Len(available) |-> available[i].Name]

\* HealthResponse as healthHandler encodes it.
HealthResponse(models) ==
  [status |-> 200, Response |-> "", ModelUsed |-> "", message |-> "", err |-> NoErr,
   Status |-> "healthy", Service |-> "bedrock-service",
   AvailableModels |-> GetAvailableModels(models)]

\* The body of modelsHandler: one object per catalogue entry.
ModelsResponse(models) ==
  [status |-> 200, Response |-> "", ModelUsed |-> "", message |-> "", err |-> NoErr,
   models |-> [i \in 1..Len(models) |->
                 [id |-> models[i].ID, name |-> models[i].Name,
                  available |-> models[i].Available,
                  api_type |-> IF models[i].MessageAPI THEN "messages" ELSE "legacy",
                  features |-> << "conversation-context", "file-analysis" >>]]]

healthHandler(c) ==
  /\ build = "multiModel"
  /\ phase = "serving"
  /\ gen[c].pc = "idle"
  /\ gen' = [gen EXCEPT ![c] = Respond([IdleGen EXCEPT !.route = "GET /health"],
                                       HealthResponse(availableModels))]
  /\ UNCHANGED << build, bc, probeErrs, phase, availableModels, probeIdx, cacheVars >>

modelsHandler(c) ==
  /\ build = "multiModel"
  /\ phase = "serving"
  /\ gen[c].pc = "idle"
  /\ gen' = [gen EXCEPT ![c] = Respond([IdleGen EXCEPT !.route = "GET /models"],
                                       ModelsResponse(availableModels))]
  /\ UNCHANGED << build, bc, probeErrs, phase, availableModels, probeIdx, cacheVars >>

\* The caller has read the response; its next request starts from a fresh handler.
HandlerReturns(c) ==
  /\ gen[c].pc = "done"
  /\ cs[c].pc # "post"
  /\ gen' = [gen EXCEPT ![c] = IdleGen]
  /\ UNCHANGED << build, bc, probeErrs, phase, availableModels, probeIdx, cacheVars >>

Next ==
  \/ \E cfgErr \in BOOLEAN : NewBedrockClient(cfgErr)
  \/ \E err \in BOOLEAN : TestModelAvailability(err)
  \/ ListenAndServe
  \/ \E c \in Sequential, p \in DirectPrompts, m \in PreferredModels,
        mt \in MaxTokensInputs, t \in TemperatureInputs :
       generateHandler(c, GenerateRequest(p, m, mt, t))
  \/ \E c \in Sequential : generateHandlerBadBody(c)
  \/ \E c \in Sequential : healthHandler(c)
  \/ \E c \in Sequential : modelsHandler(c)
  \/ \E c \in Clients, out \in InvokeResults : InvokeModelReturns(c, out)
  \/ \E c \in Clients : HandlerReturns(c)

Spec == Init /\ [][Next]_vars


(***************************************************************************)
(* cache-service POST /generate.                                           *)
(***************************************************************************)
\* res.json / res.status(..).json: the handler has answered.
CacheRespond(h, reply) == [h EXCEPT !.pc = "done", !.res = reply, !.chained = TRUE]

\* The catch block when the error carries no response (redis, network).
CatchNoResponse(h) == CacheRespond(h, CacheReply(500, "", FALSE, "Failed to generate response"))

\* The catch block for an error status answered by bedrock-service.
CatchErrorResponse(h, reply) == CacheRespond(h, CacheReply(reply.status, "", FALSE, reply.message))

\* axios.post(BEDROCK_SERVICE_URL/generate, {prompt}): only the prompt is sent.
PostToBedrock(h) == [h EXCEPT !.pc = "post", !.downstream = @ + 1, !.refused = (phase # "serving")]
\* A post that forwards model, max_tokens and temperature with the prompt.
BedrockHandlesForwardsParams(c, h) ==
  IF phase = "serving"
    THEN [gen EXCEPT ![c] = IF build = "singleModel"
                                THEN SingleHandleGenerate(h.prompt, bc)
                                ELSE HandleGenerate(GenerateRequest(h.prompt, h.params.model,
                                                                    h.params.max_tokens,
                                                                    h.params.temperature),
                                                    availableModels)]
    ELSE gen

BedrockHandles(c, h) ==
  IF phase = "serving"
    THEN [gen EXCEPT ![c] = IF build = "singleModel"
                                THEN SingleHandleGenerate(h.prompt, bc)
                                ELSE HandleGenerate(GenerateRequest(h.prompt, "", 0, 0), availableModels)]
    ELSE gen

\* The request a caller made just before was a cache-enabled generate for
\* the same prompt that called downstream and ended without a text (an
\* error, or an empty response).
PrevFailed(old, prompt) ==
  /\ old.pc = "done"
  /\ old.route = "POST /generate"
  /\ old.useCache
  /\ old.downstream = 1
  /\ old.res.response = ""
  /\ old.prompt = prompt

\* POST /generate reading the cache whatever useCache says.
PostGenerateAlwaysReads(c, prompt, useCacheField) ==
  /\ cs[c].pc \in {"idle", "done"}
  /\ gen[c].pc = "idle"
  /\ LET h == [IdleCache EXCEPT !.route = "POST /generate", !.prompt = prompt, !.useCache = (useCacheField # "false")]
     IN IF prompt = ""
          THEN cs' = [cs EXCEPT ![c] = CacheRespond(h, CacheReply(400, "", FALSE, "Prompt is required"))]
          ELSE cs' = [cs EXCEPT ![c] = [h EXCEPT !.cacheKey = getCacheKey(prompt), !.pc = "get"]]
  /\ UNCHANGED << build, bc, probeErrs, phase, availableModels, probeIdx, gen, store, redisUp >>

\* POST /generate from the request to its first await, for a request whose
\* body carries params besides prompt and useCache; cacheKey is the key the
\* handler computes for the prompt.
PostGenerateKeyed(c, prompt, useCacheField, params, cacheKey) ==
  /\ cs[c].pc \in {"idle", "done"}
  /\ gen[c].pc = "idle"
  /\ LET old == cs[c]
         h == [IdleCache EXCEPT
                 !.route = "POST /generate",
                 !.prompt = prompt,
                 !.useCache = (useCacheField # "false"),
                 !.params = params,
                 !.prevFailed = PrevFailed(old, prompt),
                 !.prev = IF old.pc = "done" /\ old.chained /\ old.useCache /\ old.res.status = 200
                            THEN [prompt |-> old.prompt, response |-> old.res.response,
                                  params |-> old.params]
                            ELSE NoPrev]
     IN IF prompt = ""
          THEN /\ cs' = [cs EXCEPT ![c] = CacheRespond(h, CacheReply(400, "", FALSE, "Prompt is required"))]
               /\ UNCHANGED gen
          ELSE LET k == [h EXCEPT !.cacheKey = cacheKey]
               IN IF k.useCache
                    THEN /\ cs' = [cs EXCEPT ![c] = [k EXCEPT !.pc = "get"]]
                         /\ UNCHANGED gen
                    ELSE /\ cs' = [cs EXCEPT ![c] = PostToBedrock(k)]
                         /\ gen' = BedrockHandles(c, k)
  /\ UNCHANGED << build, bc, probeErrs, phase, availableModels, probeIdx, store, redisUp >>

\* A handler whose key also depends on the model field: a request that names
\* a model gets the key of another prompt.
PostGenerateWithKeyedOnModel(c, prompt, useCacheField, params) ==
  PostGenerateKeyed(c, prompt, useCacheField, params,
                    IF prompt = "" THEN NoKey
                    ELSE IF params.model = "" THEN getCacheKey(prompt)
                    ELSE CHOOSE k \in CacheKeys : k # getCacheKey(prompt))

\* The handler as written: const cacheKey = getCacheKey(prompt).
PostGenerateWith(c, prompt, useCacheField, params) ==
  PostGenerateKeyed(c, prompt, useCacheField, params,
                    IF prompt = "" THEN NoKey ELSE getCacheKey(prompt))

\* A request whose body carries prompt and useCache alone.
PostGenerate(c, prompt, useCacheField) == PostGenerateWith(c, prompt, useCacheField, NoParams)

\* A lookup whose hit restarts the expiry of the entry (sliding expiry).
RedisGetReturnsTouches(c) ==
  /\ cs[c].pc = "get"
  /\ LET h == cs[c]
         cachedResponse == IF store[h.cacheKey].present THEN store[h.cacheKey].value ELSE ""
     IN IF ~redisUp
          THEN /\ cs' = [cs EXCEPT ![c] = CatchNoResponse([h EXCEPT !.lookup = "error"])]
               /\ UNCHANGED << gen, store >>
          ELSE IF cachedResponse # ""
                 THEN /\ cs' = [cs EXCEPT ![c] =
                                   CacheRespond([h EXCEPT !.lookup = "hit"],
                                                CacheReply(200, cachedResponse, TRUE, ""))]
                      /\ store' = [store EXCEPT ![h.cacheKey].ttl = CacheTTL, ![h.cacheKey].age = 0]
                      /\ UNCHANGED gen
                 ELSE /\ cs' = [cs EXCEPT ![c] = PostToBedrock([h EXCEPT !.lookup = "miss"])]
                      /\ gen' = BedrockHandles(c, h)
                      /\ UNCHANGED store
  /\ UNCHANGED << build, bc, probeErrs, phase, availableModels, probeIdx, redisUp >>

\* await redisClient.get(cacheKey) settles: rejected, hit or miss.
RedisGetReturns(c) ==
  /\ cs[c].pc = "get"
  /\ LET h == cs[c]
         cachedResponse == IF store[h.cacheKey].present THEN store[h.cacheKey].value ELSE ""
     IN IF ~redisUp
          THEN /\ cs' = [cs EXCEPT ![c] = CatchNoResponse([h EXCEPT !.lookup = "error"])]
               /\ UNCHANGED gen
          ELSE IF cachedResponse # ""
                 THEN /\ cs' = [cs EXCEPT ![c] =
                                   CacheRespond([h EXCEPT !.lookup = "hit"],
                                                CacheReply(200, cachedResponse, TRUE, ""))]
                      /\ UNCHANGED gen
                 ELSE /\ cs' = [cs EXCEPT ![c] = PostToBedrock([h EXCEPT !.lookup = "miss"])]
                      /\ gen' = BedrockHandles(c, h)
  /\ UNCHANGED << build, bc, probeErrs, phase, availableModels, probeIdx, store, redisUp >>

\* A handler that writes whatever text it received, the empty one included.
AxiosPostReturnsWritesAlways(c) ==
  /\ cs[c].pc = "post"
  /\ cs[c].refused \/ gen[c].pc = "done"
  /\ LET h == [cs[c] EXCEPT !.got = gen[c].got]
         reply == gen[c].reply
     IN IF h.refused \/ reply = Aborted
          THEN cs' = [cs EXCEPT ![c] = CatchNoResponse(h)]
          ELSE IF reply.status # 200
                 THEN cs' = [cs EXCEPT ![c] = CatchErrorResponse([h EXCEPT !.bedrockResponse = reply], reply)]
                 ELSE LET a == [h EXCEPT !.bedrockResponse = reply, !.aiResponse = reply.Response]
                      IN IF a.useCache
                           THEN cs' = [cs EXCEPT ![c] = [a EXCEPT !.pc = "setEx"]]
                           ELSE cs' = [cs EXCEPT ![c] =
                                         CacheRespond(a, CacheReply(200, a.aiResponse, FALSE, ""))]
  /\ gen' = [gen EXCEPT ![c] = IdleGen]
  /\ UNCHANGED << build, bc, probeErrs, phase, availableModels, probeIdx, store, redisUp >>

\* await axios.post settles: no connection, an error status, or a 200 body.
AxiosPostReturns(c) ==
  /\ cs[c].pc = "post"
  /\ cs[c].refused \/ gen[c].pc = "done"
  /\ LET h == [cs[c] EXCEPT !.got = gen[c].got]
         reply == gen[c].reply
     IN IF h.refused \/ reply = Aborted
          THEN cs' = [cs EXCEPT ![c] = CatchNoResponse(h)]
          ELSE IF reply.status # 200
                 THEN cs' = [cs EXCEPT ![c] = CatchErrorResponse([h EXCEPT !.bedrockResponse = reply], reply)]
                 ELSE LET a == [h EXCEPT !.bedrockResponse = reply, !.aiResponse = reply.Response]
                      IN IF a.useCache /\ a.aiResponse # ""
                           THEN cs' = [cs EXCEPT ![c] = [a EXCEPT !.pc = "setEx"]]
                           ELSE cs' = [cs EXCEPT ![c] =
                                         CacheRespond(a, CacheReply(200, a.aiResponse, FALSE, ""))]
  /\ gen' = [gen EXCEPT ![c] = IdleGen]
  /\ UNCHANGED << build, bc, probeErrs, phase, availableModels, probeIdx, store, redisUp >>

\* setEx with twice the time to live.
RedisSetExReturnsTwiceTTL(c) ==
  /\ cs[c].pc = "setEx"
  /\ LET h == cs[c]
     IN IF ~redisUp
          THEN /\ cs' = [cs EXCEPT ![c] = CatchNoResponse([h EXCEPT !.write = "error"])]
               /\ UNCHANGED store
          ELSE /\ store' = [store EXCEPT ![h.cacheKey] =
                               [present |-> TRUE, value |-> h.aiResponse, ttl |-> 2 * CacheTTL,
                                age |-> 0, expired |-> FALSE, flushed |-> FALSE]]
               /\ cs' = [cs EXCEPT ![c] =
                            CacheRespond([h EXCEPT !.write = "ok"],
                                         CacheReply(200, h.aiResponse, FALSE, ""))]
  /\ UNCHANGED << build, bc, probeErrs, phase, availableModels, probeIdx, gen, redisUp >>

\* A write that leaves an entry already held as it is (set-if-absent).
RedisSetExReturnsKeepsFirst(c) ==
  /\ cs[c].pc = "setEx"
  /\ LET h == cs[c]
     IN IF ~redisUp
          THEN /\ cs' = [cs EXCEPT ![c] = CatchNoResponse([h EXCEPT !.write = "error"])]
               /\ UNCHANGED store
          ELSE /\ store' = IF store[h.cacheKey].present
                             THEN store
                             ELSE [store EXCEPT ![h.cacheKey] =
                                     [present |-> TRUE, value |-> h.aiResponse, ttl |-> CacheTTL,
                                      age |-> 0, expired |-> FALSE, flushed |-> FALSE]]
               /\ cs' = [cs EXCEPT ![c] =
                            CacheRespond([h EXCEPT !.write = "ok"],
                                         CacheReply(200, h.aiResponse, FALSE, ""))]
  /\ UNCHANGED << build, bc, probeErrs, phase, availableModels, probeIdx, gen, redisUp >>

\* await redisClient.setEx(cacheKey, 3600, aiResponse) settles.
RedisSetExReturns(c) ==
  /\ cs[c].pc = "setEx"
  /\ LET h == cs[c]
     IN IF ~redisUp
          THEN /\ cs' = [cs EXCEPT ![c] = CatchNoResponse([h EXCEPT !.write = "error"])]
               /\ UNCHANGED store
          ELSE /\ store' = [store EXCEPT ![h.cacheKey] =
                               [present |-> TRUE, value |-> h.aiResponse, ttl |-> CacheTTL,
                                age |-> 0, expired |-> FALSE, flushed |-> FALSE]]
               /\ cs' = [cs EXCEPT ![c] =
                            CacheRespond([h EXCEPT !.write = "ok",
                                                   !.replacedTtl = store[h.cacheKey].ttl],
                                         CacheReply(200, h.aiResponse, FALSE, ""))]
  /\ UNCHANGED << build, bc, probeErrs, phase, availableModels, probeIdx, gen, redisUp >>

\* The caller has read the response and sends nothing further.
CacheHandlerReturns(c) ==
  /\ cs[c].pc = "done"
  /\ cs' = [cs EXCEPT ![c] = IdleCache]
  /\ UNCHANGED << build, bc, probeErrs, phase, availableModels, probeIdx, gen, store, redisUp >>

(***************************************************************************)
(* cache-service GET /cache/:key.                                          *)
(***************************************************************************)
\* The keys callers ask for.
LookupKeys == CacheKeys \cup {UnknownKey}

\* redisClient.get: the value held under a key, null (as "") when none is.
RedisGet(key) == IF key \in CacheKeys /\ store[key].present THEN store[key].value ELSE ""

\* GET /cache/:key up to its await.
GetCache(c, key) ==
  /\ cs[c].pc = "idle"
  /\ gen[c].pc = "idle"
  /\ cs' = [cs EXCEPT ![c] = [IdleCache EXCEPT !.route = "GET /cache/:key", !.key = key,
                                               !.pc = "cacheGet"]]
  /\ UNCHANGED << build, bc, probeErrs, phase, availableModels, probeIdx, gen, store, redisUp >>

\* await redisClient.get(req.params.key) settles: rejected, found or not.
GetCacheReturns(c) ==
  /\ cs[c].pc = "cacheGet"
  /\ LET h == cs[c]
         value == RedisGet(h.key)
     IN IF ~redisUp
          THEN cs' = [cs EXCEPT ![c] =
                        CacheRespond(h, CacheReply(500, "", FALSE, "Failed to retrieve from cache"))]
          ELSE IF value # ""
                 THEN cs' = [cs EXCEPT ![c] = CacheRespond(h, CacheReply(200, value, TRUE, ""))]
                 ELSE cs' = [cs EXCEPT ![c] = CacheRespond(h, CacheMessage(404, "Key not found"))]
  /\ UNCHANGED << build, bc, probeErrs, phase, availableModels, probeIdx, gen, store, redisUp >>

\* An event at the store ends every "previous request" relation.
Unchain(handlers) == [c \in Clients |-> [handlers[c] EXCEPT !.prev = NoPrev, !.chained = FALSE]]

(***************************************************************************)
(* cache-service DELETE /cache and GET /stats.                             *)
(***************************************************************************)
\* The keys redis holds.
Keys(entries) == {k \in DOMAIN entries : entries[k].present}

\* DELETE /cache up to its await.
DeleteCache(c) ==
  /\ cs[c].pc = "idle"
  /\ gen[c].pc = "idle"
  /\ cs' = [cs EXCEPT ![c] = [IdleCache EXCEPT !.route = "DELETE /cache", !.pc = "flushAll"]]
  /\ UNCHANGED << build, bc, probeErrs, phase, availableModels, probeIdx, gen, store, redisUp >>

\* A flush that leaves one key in place.
FlushAllReturnsKeepsOne(c) ==
  /\ cs[c].pc = "flushAll"
  /\ redisUp
  /\ store' = [k \in CacheKeys |->
                 IF store[k].present /\ k # getCacheKey("Tell me a joke")
                   THEN [NoEntry EXCEPT !.flushed = TRUE]
                   ELSE store[k]]
  /\ cs' = [Unchain(cs) EXCEPT ![c] = CacheRespond(cs[c], CacheMessage(200, "Cache cleared successfully"))]
  /\ UNCHANGED << build, bc, probeErrs, phase, availableModels, probeIdx, gen, redisUp >>

\* await redisClient.flushAll() settles: rejected, or every key is gone.
FlushAllReturns(c) ==
  /\ cs[c].pc = "flushAll"
  /\ IF ~redisUp
       THEN /\ cs' = [cs EXCEPT ![c] = CacheRespond(cs[c], CacheReply(500, "", FALSE, "Failed to clear cache"))]
            /\ UNCHANGED store
       ELSE /\ store' = [k \in CacheKeys |->
                            IF store[k].present THEN [NoEntry EXCEPT !.flushed = TRUE] ELSE store[k]]
            /\ cs' = [Unchain(cs) EXCEPT ![c] =
                         CacheRespond(cs[c], CacheMessage(200, "Cache cleared successfully"))]
  /\ UNCHANGED << build, bc, probeErrs, phase, availableModels, probeIdx, gen, redisUp >>

\* GET /stats up to its first await.
GetStats(c) ==
  /\ cs[c].pc = "idle"
  /\ gen[c].pc = "idle"
  /\ cs' = [cs EXCEPT ![c] = [IdleCache EXCEPT !.route = "GET /stats", !.pc = "info"]]
  /\ UNCHANGED << build, bc, probeErrs, phase, availableModels, probeIdx, gen, store, redisUp >>

\* await redisClient.info('stats') settles.
StatsInfoReturns(c) ==
  /\ cs[c].pc = "info"
  /\ IF ~redisUp
       THEN cs' = [cs EXCEPT ![c] = CacheRespond(cs[c], CacheReply(500, "", FALSE, "Failed to get cache stats"))]
       ELSE cs' = [cs EXCEPT ![c].pc = "dbSize"]
  /\ UNCHANGED << build, bc, probeErrs, phase, availableModels, probeIdx, gen, store, redisUp >>

\* await redisClient.dbSize() settles and the handler answers.
StatsDbSizeReturns(c) ==
  /\ cs[c].pc = "dbSize"
  /\ IF ~redisUp
       THEN cs' = [cs EXCEPT ![c] = CacheRespond(cs[c], CacheReply(500, "", FALSE, "Failed to get cache stats"))]
       ELSE LET h == [cs[c] EXCEPT !.dbSize = Cardinality(Keys(store))]
            IN cs' = [cs EXCEPT ![c] = CacheRespond(h, StatsReply(h.dbSize, "# Stats"))]
  /\ UNCHANGED << build, bc, probeErrs, phase, availableModels, probeIdx, gen, store, redisUp >>

(***************************************************************************)
(* redis as the cache-service sees it.                                     *)
(***************************************************************************)
\* The connection to redis is lost / is back.
RedisGoesDown ==
  /\ redisUp
  /\ redisUp' = FALSE
  /\ cs' = Unchain(cs)
  /\ UNCHANGED << build, bc, probeErrs, phase, availableModels, probeIdx, gen, store >>

RedisComesBack ==
  /\ ~redisUp
  /\ redisUp' = TRUE
  /\ cs' = Unchain(cs)
  /\ UNCHANGED << build, bc, probeErrs, phase, availableModels, probeIdx, gen, store >>

\* d seconds pass: redis drops every key whose time to live has run out.
Elapses == {1800, 3600}
TimePasses(d) ==
  /\ \E k \in CacheKeys : store[k].present
  /\ store' = [k \in CacheKeys |->
                 IF store[k].present
                   THEN IF store[k].ttl > d
                          THEN [store[k] EXCEPT !.ttl = @ - d, !.age = @ + d]
                          ELSE [NoEntry EXCEPT !.expired = TRUE]
                   ELSE store[k]]
  /\ cs' = Unchain(cs)
  /\ UNCHANGED << build, bc, probeErrs, phase, availableModels, probeIdx, gen, redisUp >>

UseCacheFields == {"undefined", "true", "false"}

\* The catalogue after a start-up in which exactly the probes of A succeeded.
Probed(A) == [i \in 1..Len(Catalogue) |-> [Catalogue[i] EXCEPT !.Available = (i \in A)]]

\* Both services have started: the multi-model bedrock-service serves after
\* its probe run or has exited on a configuration error; the single-model one
\* serves with or without a client (its main only warns when set-up fails);
\* the cache is empty and redis answers.
InitCache ==
  /\ \/ /\ build = "multiModel"
        /\ bc = "client"
        /\ phase = "serving"
        /\ \E A \in SUBSET (1..ServingModels) :
             /\ Cardinality(A) <= MaxAvailable
             /\ availableModels = Probed(A)
             /\ probeErrs = [i \in 1..Len(Catalogue) |-> i \notin A]
        /\ probeIdx = Len(Catalogue) + 1
     \/ /\ build = "multiModel"
        /\ bc = "nil"
        /\ phase = "exited"
        /\ availableModels = << >>
        /\ probeIdx = 0
        /\ probeErrs = << >>
     \/ /\ build = "singleModel"
        /\ bc \in {"client", "nil"}
        /\ phase = "serving"
        /\ availableModels = << >>
        /\ probeIdx = 0
        /\ probeErrs = << >>
  /\ gen = [c \in Clients |-> IdleGen]
  /\ cs = [c \in Clients |-> IdleCache]
  /\ store = [k \in CacheKeys |-> NoEntry]
  /\ redisUp = TRUE

CacheNext ==
  \/ \E c \in Sequential, p \in Prompts, u \in UseCacheFields : PostGenerate(c, p, u)
  \/ \E c \in Clients : RedisGetReturns(c)
  \/ \E c \in Clients, out \in InvokeResults : InvokeModelReturns(c, out)
  \/ \E c \in Clients : AxiosPostReturns(c)
  \/ \E c \in Clients : RedisSetExReturns(c)
  \/ \E c \in Clients : CacheHandlerReturns(c)
  \/ \E c \in Sequential : cs[c].pc = "idle" /\ generateHandler(c, GenerateRequest("", "", 0, 0))
  \/ \E c \in Clients : HandlerReturns(c)
  \/ \E c \in Sequential, key \in LookupKeys : GetCache(c, key)
  \/ \E c \in Clients : GetCacheReturns(c)
  \/ \E c \in Sequential : DeleteCache(c)
  \/ \E c \in Clients : FlushAllReturns(c)
  \/ \E c \in Sequential : GetStats(c)
  \/ \E c \in Clients : StatsInfoReturns(c)
  \/ \E c \in Clients : StatsDbSizeReturns(c)
  \/ RedisGoesDown
  \/ RedisComesBack
  \/ \E d \in Elapses : TimePasses(d)

CacheSpec == InitCache /\ [][CacheNext]_vars

(***************************************************************************)
(* bedrock-service requests that outlast the server's WriteTimeout.        *)
(***************************************************************************)
\* WriteTimeout (120 s; 30 s in the single-model service) runs out while the
\* handler of c waits for InvokeModel. The handler holds context.TODO() and
\* reads no clock, so nothing it uses changes.
WriteTimeoutPasses(c) ==
  /\ gen[c].pc = "calling"
  /\ gen[c].deadlineAt = 0
  /\ gen' = [gen EXCEPT ![c].deadlineAt = Len(gen[c].invoked)]
  /\ UNCHANGED << build, bc, probeErrs, phase, availableModels, probeIdx, cacheVars >>

\* A started bedrock-service that callers post to directly.
InitDeadline == InitCache /\ phase = "serving"

DeadlineNext ==
  \/ \E c \in Sequential, m \in PreferredModels :
       generateHandler(c, GenerateRequest("What is TLA+?", m, 0, 0))
  \/ \E c \in Clients, out \in InvokeResults : InvokeModelReturns(c, out)
  \/ \E c \in Clients : HandlerReturns(c)
  \/ \E c \in Clients : WriteTimeoutPasses(c)

DeadlineSpec == InitDeadline /\ [][DeadlineNext]_vars

(***************************************************************************)
(* bedrock-service when every InvokeModel call returns.                    *)
(***************************************************************************)
\* The multi-model service serves after its probe run.
InitTermination == InitCache /\ build = "multiModel" /\ phase = "serving"

TerminationNext ==
  \/ \E c \in Sequential, m \in PreferredModels :
       generateHandler(c, GenerateRequest("What is TLA+?", m, 0, 0))
  \/ \E c \in Clients, out \in InvokeResults : InvokeModelReturns(c, out)
  \/ \E c \in Clients : HandlerReturns(c)

\* context.TODO() sets no deadline: that a call returns is an assumption on
\* the provider, made here for every call.
TerminationSpec ==
  /\ InitTermination
  /\ [][TerminationNext]_vars
  /\ \A c \in Clients : WF_vars(\E out \in InvokeResults : InvokeModelReturns(c, out))

(***************************************************************************)
(* bedrock-service from start-up on, under health and models requests.     *)
(***************************************************************************)
ReportNext ==
  \/ \E cfgErr \in BOOLEAN : NewBedrockClient(cfgErr)
  \/ \E err \in BOOLEAN : TestModelAvailability(err)
  \/ ListenAndServe
  \/ \E c \in Clients : healthHandler(c)
  \/ \E c \in Clients : modelsHandler(c)
  \/ \E c \in Clients : HandlerReturns(c)

ReportSpec == Init /\ [][ReportNext]_vars

(***************************************************************************)
(* bedrock-service when TestModelAvailability is run again while serving.  *)
(* main runs it once, before ListenAndServe; it is a method of the client  *)
(* that a caller may invoke again, and it takes no lock. A selection is    *)
(* one step here: a read of a flag racing with its write sees the old or   *)
(* the new value, which is the selection before or after the probe step.   *)
(***************************************************************************)
\* A further run of TestModelAvailability begins at the first entry.
ReprobeStarts ==
  /\ build = "multiModel"
  /\ phase = "serving"
  /\ probeIdx > Len(availableModels)
  /\ probeIdx' = 1
  /\ UNCHANGED << build, bc, probeErrs, phase, availableModels, gen, cacheVars >>

\* One iteration of that run: the flag of the entry is written; a request in
\* its loop notes a change. Only the first ServingModels entries answer: the
\* iterations over the later ones write FALSE over FALSE, and are taken
\* together with the last iteration that can change a flag.
ReprobeStep(err) ==
  /\ build = "multiModel"
  /\ phase = "serving"
  /\ probeIdx <= ServingModels
  /\ ~err => NumAvailable([availableModels EXCEPT ![probeIdx].Available = FALSE]) < MaxAvailable
  /\ availableModels' = [availableModels EXCEPT ![probeIdx].Available = ~err]
  /\ probeIdx' = IF probeIdx < ServingModels THEN probeIdx + 1 ELSE Len(availableModels) + 1
  /\ gen' = [c \in Clients |->
               IF /\ gen[c].pc = "calling"
                  /\ gen[c].staleAt = 0
                  /\ availableModels[probeIdx].Available = err
                 THEN [gen[c] EXCEPT !.staleAt = Len(gen[c].invoked)]
                 ELSE gen[c]]
  /\ UNCHANGED << build, bc, probeErrs, phase, cacheVars >>

SnapshotNext ==
  \/ ReprobeStarts
  \/ \E err \in BOOLEAN : ReprobeStep(err)
  \/ \E c \in Sequential : generateHandler(c, GenerateRequest("What is TLA+?", "", 0, 0))
  \/ \E c \in Clients, out \in InvokeResults : InvokeModelReturns(c, out)
  \/ \E c \in Clients : HandlerReturns(c)

SnapshotSpec == InitTermination /\ [][SnapshotNext]_vars

(***************************************************************************)
(* The cache-service under requests that carry generation parameters.      *)
(***************************************************************************)
\* The prompt the parameterised requests share.
SharedPrompt == "What is TLA+?"

\* max_tokens, temperature and model as callers set them: none, or one each.
ParamsInputs ==
  {NoParams, GenerateParams(100, 0, ""), GenerateParams(0, 5, ""), GenerateParams(0, 0, "Haiku")}

KeyNext ==
  \/ \E c \in Sequential, params \in ParamsInputs : PostGenerateWith(c, SharedPrompt, "undefined", params)
  \/ \E c \in Clients : RedisGetReturns(c)
  \/ \E c \in Clients, out \in InvokeResults : InvokeModelReturns(c, out)
  \/ \E c \in Clients : AxiosPostReturns(c)
  \/ \E c \in Clients : RedisSetExReturns(c)

KeySpec == InitCache /\ [][KeyNext]_vars

(***************************************************************************)
(* The cache-service under concurrent requests for one prompt.             *)
(***************************************************************************)
\* Every caller may post while the request of another is being handled: the
\* handlers are async functions that interleave at their awaits.
ConcurrentNext ==
  \/ \E c \in Clients : PostGenerate(c, SharedPrompt, "undefined")
  \/ \E c \in Clients : RedisGetReturns(c)
  \/ \E c \in Clients, out \in InvokeResults : InvokeModelReturns(c, out)
  \/ \E c \in Clients : AxiosPostReturns(c)
  \/ \E c \in Clients : RedisSetExReturns(c)
  \/ \E d \in Elapses : TimePasses(d)

ConcurrentSpec == InitCache /\ [][ConcurrentNext]_vars

(***************************************************************************)
(* Properties of GenerateText.                                             *)
(***************************************************************************)
\* Handlers whose request passed validation, so that GenerateText ran.
Selected(c) == gen[c].pc \in {"calling", "done"} /\ gen[c].req.Prompt # ""

\* Catalogue positions whose name or id contains the preference, compared
\* without regard to case, written out for the preferences callers send.
MatchingEntries(preferredModel) ==
  CASE preferredModel = "Haiku" -> {3, 5}
    [] preferredModel = "SONNET V2" -> {1}
    [] preferredModel = "claude-v2" -> {7, 8}
    [] preferredModel = "gpt" -> {}
    [] preferredModel = "" -> {}

\* Positions of the available entries, and the least of a non-empty set.
AvailableAt(models) == {i \in 1..Len(models) : models[i].Available}
Least(S) == CHOOSE i \in S : \A j \in S : i <= j

\* The candidate positions the claim describes: the first available match,
\* then every other available position in ascending order.
RECURSIVE Ascending(_)
Ascending(S) == IF S = {} THEN << >> ELSE << Least(S) >> \o Ascending(S \ {Least(S)})
ExpectedCandidates(models, preferredModel) ==
  LET hits == MatchingEntries(preferredModel) \cap AvailableAt(models)
      first == IF hits = {} THEN {} ELSE {Least(hits)}
  IN Ascending(first) \o Ascending(AvailableAt(models) \ first)

\* C2: the candidate list is the first available catalogue entry matching the
\* preference (if any), then every other available entry in catalogue order;
\* it holds no unavailable model and no model twice.
C2_CandidateList ==
  \A c \in Clients :
    Selected(c) =>
      LET list == gen[c].modelsToTry
          want == ExpectedCandidates(availableModels, gen[c].req.Model)
      IN /\ Len(list) = Len(want)
         /\ \A k \in 1..Len(list) : list[k] = availableModels[want[k]]
         /\ \A k \in 1..Len(list) : list[k].Available
         /\ \A j, k \in 1..Len(list) : j # k => list[j].ID # list[k].ID

\* C2 witness: a preference moved a later catalogue entry in front of an
\* earlier available one while the first catalogue entry is unavailable.
C2_Witness ==
  \E c \in Clients :
    /\ Selected(c)
    /\ gen[c].req.Model = "claude-v2"
    /\ ~availableModels[1].Available
    /\ Len(gen[c].modelsToTry) = 2
    /\ gen[c].modelsToTry[1].ID = "anthropic.claude-v2:1"
    /\ gen[c].modelsToTry[2].ID = "anthropic.claude-3-5-haiku-20241022-v1:0"


\* The handler of c has answered: success, or a GenerateText failure.
Succeeded(c) == Selected(c) /\ gen[c].pc = "done" /\ gen[c].reply.status = 200
Failed(c) == Selected(c) /\ gen[c].pc = "done" /\ gen[c].reply.status # 200

\* Position in the candidate list of the model with the given display name.
CandidateNamed(c, name) ==
  CHOOSE k \in 1..Len(gen[c].modelsToTry) : gen[c].modelsToTry[k].Name = name

\* The body of a response that carries text for a model of the given format.
BodyWithText(messageAPI, text) ==
  IF messageAPI
    THEN Obj([content |-> Arr(<< Obj([type |-> Str("text"), text |-> Str(text)]) >>)])
    ELSE Obj([completion |-> Str(text)])

\* C3: candidates are invoked strictly in list order; GenerateText returns at
\* the first candidate that succeeds, modelUsed is that candidate's display
\* name, and no candidate after the winner is invoked.
C3_FirstSuccessWins ==
  \A c \in Clients :
    Selected(c) =>
      /\ Len(gen[c].invoked) <= Len(gen[c].modelsToTry)
      /\ \A k \in 1..Len(gen[c].invoked) :
            gen[c].invoked[k].ModelId = gen[c].modelsToTry[k].ID
      /\ Succeeded(c) =>
            /\ \E k \in 1..Len(gen[c].modelsToTry) :
                  gen[c].modelsToTry[k].Name = gen[c].reply.ModelUsed
            /\ Len(gen[c].invoked) = CandidateNamed(c, gen[c].reply.ModelUsed)
            /\ Len(gen[c].errs) = Len(gen[c].invoked) - 1
            /\ gen[c].got.err = "nil"

\* C3 witness: the first of two candidates succeeded and the second was never invoked.
C3_Witness ==
  \E c \in Clients :
    /\ Succeeded(c)
    /\ Len(gen[c].modelsToTry) = 2
    /\ Len(gen[c].invoked) = 1
    /\ gen[c].reply.ModelUsed = gen[c].modelsToTry[1].Name

\* The error the code is expected to record for a failed call of a model.
ErrorOf(result, model) ==
  IF result.err # "nil"
    THEN [kind |-> "invoke", detail |-> result.err]
    ELSE IF result.Body.t = "raw"
           THEN [kind |-> "error parsing response", detail |-> ""]
           ELSE [kind |-> "unexpected response format from model", detail |-> model.Name]

\* C4: a candidate whose call errors or whose response cannot be parsed is
\* recorded in lastError and the next candidate is tried (a failure never ends
\* the loop early); a later success returns that candidate's text and name.
C4_FailureContinues ==
  \A c \in Clients :
    Selected(c) =>
      /\ Len(gen[c].errs) >= 1 => gen[c].lastError = gen[c].errs[Len(gen[c].errs)]
      /\ gen[c].pc = "calling" =>
            /\ Len(gen[c].invoked) = Len(gen[c].errs) + 1
            /\ gen[c].idx = Len(gen[c].errs) + 1
            /\ gen[c].idx > 1 =>
                  gen[c].lastError = ErrorOf(gen[c].got, gen[c].modelsToTry[gen[c].idx - 1])
      /\ Failed(c) => Len(gen[c].errs) = Len(gen[c].modelsToTry)
      /\ (Succeeded(c) /\ Len(gen[c].errs) >= 1) =>
            LET winner == gen[c].modelsToTry[Len(gen[c].errs) + 1]
            IN /\ gen[c].reply.ModelUsed = winner.Name
               /\ gen[c].got.Body = BodyWithText(winner.MessageAPI, gen[c].reply.Response)

\* C4 witness: the first candidate returned malformed JSON, the second succeeded.
C4_Witness ==
  \E c \in Clients :
    /\ Succeeded(c)
    /\ Len(gen[c].errs) = 1
    /\ gen[c].errs[1].kind = "error parsing response"
    /\ gen[c].reply.ModelUsed = gen[c].modelsToTry[2].Name
    /\ gen[c].reply.Response = "Hi"

\* C5: no step of a generate request changes an Available flag or restarts
\* probing; the flags change only while main runs its start-up probe.
C5_FlagsOnlyByProber ==
  [][ /\ gen' # gen => (availableModels' = availableModels /\ phase' = phase /\ probeIdx' = probeIdx)
      /\ availableModels' # availableModels => phase \in {"start", "probing"}
      /\ phase = "serving" => phase' = "serving" ]_vars

\* C5 witness: every candidate failed and each is still marked available.
C5_Witness ==
  \E c \in Clients :
    /\ Failed(c)
    /\ Len(gen[c].errs) = 2
    /\ \A k \in 1..2 :
          \E i \in 1..Len(availableModels) :
            /\ availableModels[i].ID = gen[c].modelsToTry[k].ID
            /\ availableModels[i].Available

\* C6: with every catalogue entry unavailable, GenerateText returns the
\* "no available models" error and makes no remote call.
C6_AllUnavailable ==
  \A c \in Clients :
    (Selected(c) /\ AvailableAt(availableModels) = {}) =>
      /\ gen[c].pc = "done"
      /\ gen[c].reply.status = 500
      /\ gen[c].reply.err = NoModelsErr
      /\ gen[c].invoked = << >>

\* C6 witness: a validated request was answered while no model was available.
C6_Witness ==
  \E c \in Clients :
    /\ Failed(c)
    /\ AvailableAt(availableModels) = {}
    /\ gen[c].reply.err.kind = "no available models found"

\* C7: when every candidate fails, the failure returned carries the error of
\* the last candidate tried and of no earlier one.
C7_LastErrorReturned ==
  \A c \in Clients :
    (Failed(c) /\ Len(gen[c].modelsToTry) >= 1) =>
      LET n == Len(gen[c].modelsToTry)
      IN /\ gen[c].reply.status = 500
         /\ gen[c].reply.err.kind = "all available models failed. Last error"
         /\ Len(gen[c].errs) = n
         /\ gen[c].reply.err.last = gen[c].errs[n]
         /\ gen[c].reply.err.last = ErrorOf(gen[c].got, gen[c].modelsToTry[n])

\* C7 witness: two candidates failed with different errors; the second is returned.
C7_Witness ==
  \E c \in Clients :
    /\ Failed(c)
    /\ Len(gen[c].errs) = 2
    /\ gen[c].errs[1] # gen[c].errs[2]
    /\ gen[c].reply.err.last = gen[c].errs[2]

\* C8: GenerateText never returns a success whose text is empty.
C8_NoEmptySuccess ==
  \A c \in Clients : Succeeded(c) => gen[c].reply.Response # ""

(***************************************************************************)
(* Properties of the cache-service.                                        *)
(***************************************************************************)
\* The cache-service has answered the request of c.
Answered(c) == cs[c].pc = "done"

\* C1: a cache-enabled generate that directly follows a successful
\* cache-enabled generate for the same non-empty prompt returns the same
\* response text and makes no call to the downstream generation service.
C1_RepeatServedFromCache ==
  \A c \in Clients :
    (/\ Answered(c)
     /\ cs[c].useCache
     /\ cs[c].prompt # ""
     /\ cs[c].prev # NoPrev
     /\ cs[c].prev.prompt = cs[c].prompt) =>
      /\ cs[c].res.status = 200
      /\ cs[c].res.response = cs[c].prev.response
      /\ cs[c].downstream = 0

\* C9: when the lookup fails because redis is unreachable, the request is
\* treated as a miss: the downstream service is called once and its result is
\* what the caller receives.
C9_LookupFailureIsMiss ==
  \A c \in Clients :
    (Answered(c) /\ cs[c].lookup = "error") =>
      /\ cs[c].downstream = 1
      /\ cs[c].res.status = cs[c].bedrockResponse.status
      /\ cs[c].res.response = cs[c].bedrockResponse.Response

\* C10: when the downstream generation succeeded and the cache write fails,
\* the caller still receives the generated response as a success.
C10_WriteFailureIsNoOp ==
  \A c \in Clients :
    (Answered(c) /\ cs[c].bedrockResponse.status = 200 /\ cs[c].write = "error") =>
      /\ cs[c].res.status = 200
      /\ cs[c].res.response = cs[c].aiResponse

\* The handler of c moved (history of the previous request set aside).
HandlerStep(c) ==
  [cs'[c] EXCEPT !.prev = NoPrev, !.chained = FALSE] # [cs[c] EXCEPT !.prev = NoPrev, !.chained = FALSE]

\* C11: a request with useCache false makes no cache read and no cache write:
\* none of its steps changes the store, an entry held for its prompt is not
\* served, and it answers with what one downstream call returned.
C11_NoCacheUse ==
  [][ \A c \in Clients :
        /\ (HandlerStep(c) /\ ~cs'[c].useCache) => store' = store
        /\ (cs'[c].pc \in {"post", "done"} /\ ~cs'[c].useCache /\ cs'[c].prompt # "") =>
              /\ cs'[c].lookup = "none"
              /\ cs'[c].write = "none"
              /\ cs'[c].downstream = 1
        /\ (cs'[c].pc = "done" /\ ~cs'[c].useCache /\ cs'[c].prompt # "") =>
              /\ ~cs'[c].res.cached
              /\ cs'[c].refused => cs'[c].bedrockResponse = NoReply
              /\ cs'[c].bedrockResponse = NoReply =>
                    cs'[c].res = CacheReply(500, "", FALSE, "Failed to generate response")
              /\ cs'[c].bedrockResponse # NoReply =>
                    /\ cs'[c].res.status = cs'[c].bedrockResponse.status
                    /\ cs'[c].res.response = cs'[c].bedrockResponse.Response
                    /\ cs'[c].res.error = cs'[c].bedrockResponse.message ]_vars

\* C11 witness: an entry is held for the prompt, yet the answer is the fresh
\* downstream text, which differs from the entry, and the entry is as it was.
C11_Witness ==
  \E c \in Clients :
    /\ Answered(c)
    /\ ~cs[c].useCache
    /\ cs[c].prompt # ""
    /\ store[cs[c].cacheKey].present
    /\ cs[c].res.status = 200
    /\ cs[c].downstream = 1
    /\ cs[c].res.response # store[cs[c].cacheKey].value
    /\ cs[c].res.response # ""

\* C12: every value put under a key K is the text a provider response carried
\* for a successful generation of a request whose cache key is K, written
\* with the full time to live; an entry otherwise only ages. So no entry
\* holds an error, a placeholder or a text produced for another key.
C12_EntriesAreGeneratedTexts ==
  [][ \A k \in CacheKeys :
        (store'[k].present /\ store'[k] # store[k]) =>
          \/ /\ store[k].present
             /\ store'[k].value = store[k].value
             /\ store'[k].ttl < store[k].ttl
          \/ \E c \in Clients :
               /\ cs[c].pc = "setEx"
               /\ getCacheKey(cs[c].prompt) = k
               /\ cs[c].bedrockResponse.status = 200
               /\ cs[c].got.err = "nil"
               /\ \E api \in BOOLEAN : cs[c].got.Body = BodyWithText(api, store'[k].value)
               /\ store'[k].ttl = CacheTTL ]_vars

\* The last value held under a key ran out of time to live and none was written since.
Expired(key) == key \in CacheKeys /\ ~store[key].present /\ store[key].expired

\* C13: a value written with the time to live of 3600 s is served only while
\* younger than that: a cache hit of generate or of GET /cache/:key returns an
\* entry less than 3600 s old; once the entry has expired, generate misses and
\* calls the downstream service, and GET /cache/:key answers 404.
C13_ExpiredNeverServed ==
  [][ \A c \in Clients :
        /\ (cs[c].pc = "get" /\ cs'[c].lookup = "hit") =>
              /\ store[cs[c].cacheKey].present
              /\ store[cs[c].cacheKey].age < CacheTTL
              /\ cs'[c].res.response = store[cs[c].cacheKey].value
        /\ (cs[c].pc = "cacheGet" /\ cs'[c].pc = "done" /\ cs'[c].res.status = 200) =>
              /\ cs[c].key \in CacheKeys
              /\ store[cs[c].key].present
              /\ store[cs[c].key].age < CacheTTL
              /\ cs'[c].res.response = store[cs[c].key].value
        /\ (cs[c].pc = "get" /\ cs'[c].pc # "get" /\ redisUp /\ Expired(cs[c].cacheKey)) =>
              /\ cs'[c].lookup = "miss"
              /\ cs'[c].pc = "post"
              /\ cs'[c].downstream = 1
        /\ (cs[c].pc = "cacheGet" /\ cs'[c].pc = "done" /\ redisUp /\ Expired(cs[c].key)) =>
              /\ cs'[c].res.status = 404
              /\ ~cs'[c].res.cached ]_vars

\* C13 witness: a generate request found its key expired, missed and has
\* called the downstream service.
C13_Witness ==
  \E c \in Clients :
    /\ cs[c].pc = "post"
    /\ cs[c].lookup = "miss"
    /\ cs[c].downstream = 1
    /\ Expired(cs[c].cacheKey)

\* The last value held under a key was removed by a flush and none was written since.
Flushed(key) == key \in CacheKeys /\ ~store[key].present /\ store[key].flushed

\* C14: a completed DELETE /cache leaves redis without any key, and leaves an
\* already empty store exactly as it was; GET /stats reports as cacheSize the
\* number of keys held, so 0 after a flush; a key removed by the flush misses
\* in generate (which then calls the downstream service) and in GET /cache/:key.
C14_FlushEmptiesStore ==
  [][ \A c \in Clients :
        /\ (cs[c].pc = "flushAll" /\ cs'[c].pc = "done" /\ cs'[c].res.status = 200) =>
              /\ Keys(store') = {}
              /\ Keys(store) = {} => store' = store
        /\ (cs[c].pc = "dbSize" /\ cs'[c].pc = "done" /\ cs'[c].res.status = 200) =>
              /\ cs'[c].res.cacheSize = Cardinality(Keys(store))
              /\ (\A k \in CacheKeys : ~store[k].present) => cs'[c].res.cacheSize = 0
        /\ (cs[c].pc = "get" /\ cs'[c].pc # "get" /\ redisUp /\ Flushed(cs[c].cacheKey)) =>
              /\ cs'[c].lookup = "miss"
              /\ cs'[c].pc = "post"
        /\ (cs[c].pc = "cacheGet" /\ cs'[c].pc = "done" /\ redisUp /\ Flushed(cs[c].key)) =>
              cs'[c].res.status = 404 ]_vars

\* C14 witness: GET /stats answered cacheSize 0 after a flush removed cached keys.
C14_Witness ==
  \E c \in Clients :
    /\ Answered(c)
    /\ cs[c].route = "GET /stats"
    /\ cs[c].res.status = 200
    /\ cs[c].res.cacheSize = 0
    /\ \A k \in CacheKeys : Flushed(k)

\* C15: a generate request with an empty prompt is answered 400 at once by
\* either service: the cache-service makes no cache read, no cache write and
\* no downstream call for it, bedrock-service makes no InvokeModel call, and
\* the step that rejects it leaves the store as it was.
C15_EmptyPromptRejected ==
  [][ \A c \in Clients :
        /\ (HandlerStep(c) /\ cs'[c].route = "POST /generate" /\ cs'[c].prompt = "") =>
              /\ cs'[c].pc = "done"
              /\ cs'[c].res = CacheReply(400, "", FALSE, "Prompt is required")
              /\ cs'[c].lookup = "none"
              /\ cs'[c].write = "none"
              /\ cs'[c].downstream = 0
              /\ gen' = gen
              /\ store' = store
        /\ (gen'[c] # gen[c] /\ gen'[c].route = "POST /generate" /\ gen'[c].req.Prompt = "") =>
              /\ gen'[c].pc = "done"
              /\ gen'[c].reply.status = 400
              /\ gen'[c].invoked = << >>
              /\ store' = store ]_vars

\* C15 witness: the cache-service rejected an empty prompt while it held a
\* cached entry and redis was reachable.
C15_Witness ==
  \E c \in Clients :
    /\ Answered(c)
    /\ cs[c].route = "POST /generate"
    /\ cs[c].prompt = ""
    /\ cs[c].res.status = 400
    /\ redisUp
    /\ Keys(store) # {}

\* C15 second witness state: bedrock-service rejected an empty prompt posted to it.
C15_DirectRejected ==
  \E c \in Clients :
    /\ gen[c].pc = "done"
    /\ gen[c].reply.message = "Prompt is required"
    /\ cs[c].pc = "idle"

\* C16: when the set-up of the client failed at start-up (bc is nil), the
\* process keeps running, and every generation attempt is answered with an
\* error result without any call to the provider.
C16_SetupFailureKeepsRunning ==
  bc = "nil" =>
    /\ phase # "exited"
    /\ \A c \in Clients :
          (gen[c].pc = "done" /\ gen[c].req.Prompt # "") =>
            /\ gen[c].reply.status >= 500
            /\ gen[c].invoked = << >>

\* C17: once the deadline of a request has passed during fallback, no further
\* candidate is invoked and the request is answered with a timeout failure.
C17_DeadlineStopsFallback ==
  \A c \in Clients :
    gen[c].deadlineAt >= 1 =>
      /\ Len(gen[c].invoked) = gen[c].deadlineAt
      /\ gen[c].pc = "done" => gen[c].reply.status \in {408, 504}

\* C18: a request reads the catalogue only after the probe run has written
\* every flag, and the prober writes a flag only while no request is being
\* handled; what a health or models request reports is therefore the complete
\* set of flags the probe run left, and a generate request draws its
\* candidates from exactly those.
C18_NoHalfUpdatedCatalogue ==
  [][ /\ \A c \in Clients :
           (gen'[c] # gen[c] /\ gen[c].pc = "idle") =>
             /\ phase = "serving"
             /\ probeIdx > Len(availableModels)
             /\ availableModels' = availableModels
      /\ availableModels' # availableModels => \A c \in Clients : gen[c].pc = "idle" /\ gen'[c].pc = "idle"
      /\ \A c \in Clients :
           /\ gen'[c].route = "GET /health" =>
                 gen'[c].reply.AvailableModels = GetAvailableModels(availableModels')
           /\ gen'[c].route = "GET /models" =>
                 \A i \in 1..Len(availableModels') :
                   gen'[c].reply.models[i].available = availableModels'[i].Available
           /\ (gen'[c].route = "POST /generate" /\ gen'[c].req.Prompt # "") =>
                 {gen'[c].modelsToTry[k].ID : k \in 1..Len(gen'[c].modelsToTry)}
                   = {availableModels'[i].ID : i \in AvailableAt(availableModels')} ]_vars

\* C18 witness: a models request was answered after a probe run in which the
\* first probe failed and a later one succeeded, and reports exactly that.
C18_Witness ==
  \E c \in Clients :
    /\ gen[c].pc = "done"
    /\ gen[c].route = "GET /models"
    /\ ~gen[c].reply.models[1].available
    /\ gen[c].reply.models[2].available
    /\ probeIdx > Len(availableModels)

\* C19: every probed entry is available exactly when its probe returned
\* without error and every entry not yet probed is as the catalogue lists it;
\* when the probe run is over every entry has been probed, whatever failed on
\* the way, and the process has not exited because of a probe.
C19_FlagsFollowProbes ==
  /\ \A i \in 1..Len(probeErrs) : availableModels[i].Available = ~probeErrs[i]
  /\ \A i \in (Len(probeErrs) + 1)..Len(availableModels) : availableModels[i] = Catalogue[i]
  /\ (phase = "probing" /\ probeIdx <= Len(availableModels)) => Len(probeErrs) = probeIdx - 1
  /\ (build = "multiModel" /\ (phase = "serving" \/ probeIdx > Len(availableModels))
        /\ phase \notin {"start", "exited"}) =>
        Len(probeErrs) = Len(Catalogue)
  /\ phase = "exited" => probeErrs = << >>

\* C19 witness: the probe run is over; the first probe failed, the second
\* succeeded, a later one failed again, and the flags say so.
C19_Witness ==
  /\ phase = "serving"
  /\ Len(probeErrs) = Len(Catalogue)
  /\ probeErrs[1] /\ ~probeErrs[2] /\ probeErrs[3]
  /\ ~availableModels[1].Available
  /\ availableModels[2].Available
  /\ ~availableModels[3].Available

\* What bedrock-service delivered for a generate request that reached
\* GenerateText: a success with response and model_used and no error, or a
\* single error that carries no result.
GenerateOutcomeOK(c) ==
  (gen[c].route = "POST /generate" /\ gen[c].req.Prompt # "" /\ gen[c].pc = "done") =>
    \/ /\ gen[c].reply.status = 200
       /\ gen[c].reply.ModelUsed # ""
       /\ gen[c].reply.err = NoErr
       /\ gen[c].reply.message = ""
    \/ /\ gen[c].reply.status = 500
       /\ gen[c].reply.Response = ""
       /\ gen[c].reply.ModelUsed = ""
       /\ gen[c].reply.message = "Error generating response"
       /\ gen[c].reply.err.kind \in {"no available models found",
                                     "all available models failed. Last error"}

\* The same for what the cache-service delivered after it called downstream.
CacheOutcomeOK(c) ==
  (cs[c].route = "POST /generate" /\ cs[c].downstream >= 1 /\ cs[c].pc = "done") =>
    \/ /\ cs[c].res.status = 200
       /\ cs[c].res.error = ""
       /\ "model_used" \in DOMAIN cs[c].res
    \/ /\ cs[c].res.status # 200
       /\ cs[c].res.response = ""
       /\ cs[c].res.error # ""

\* C20: a generate request that reached the generation path is answered with
\* exactly one outcome, a success carrying response and model_used or one
\* terminal error, by bedrock-service and by the cache-service in front of it.
C20_OneOutcome ==
  \A c \in Clients : GenerateOutcomeOK(c) /\ CacheOutcomeOK(c)

\* C20 restricted to bedrock-service.
C20_BedrockOutcome ==
  \A c \in Clients : GenerateOutcomeOK(c)

\* C21: the cache key is a function of the prompt alone: whatever max_tokens,
\* temperature or model a request carries, its key is the key of its prompt,
\* and a cache-enabled request that follows one for the same prompt with
\* other parameters, whose result was cached, is served that result from the
\* cache without a downstream call.
C21_KeyIgnoresParams ==
  \A c \in Clients :
    /\ cs[c].cacheKey # NoKey => cs[c].cacheKey = getCacheKey(cs[c].prompt)
    /\ (/\ Answered(c)
        /\ cs[c].useCache
        /\ cs[c].prev # NoPrev
        /\ cs[c].prev.prompt = cs[c].prompt
        /\ cs[c].prev.params # cs[c].params
        /\ cs[c].prev.response # "") =>
         /\ cs[c].lookup = "hit"
         /\ cs[c].res = CacheReply(200, cs[c].prev.response, TRUE, "")
         /\ cs[c].downstream = 0

\* A request naming a model is served from the cache what a request for the
\* same prompt with no model and other max_tokens was answered.
C21_Witness ==
  \E c \in Clients :
    /\ Answered(c)
    /\ cs[c].params.model = "Haiku"
    /\ cs[c].prev.prompt = cs[c].prompt
    /\ cs[c].prev.params = GenerateParams(100, 0, "")
    /\ cs[c].prev.response # ""
    /\ cs[c].res.cached
    /\ cs[c].res.response = cs[c].prev.response

(***************************************************************************)
(* Properties of the payloads and of the fallback loop.                    *)
(***************************************************************************)
\* The token limit a payload carries, under the name its API shape gives it.
TokenLimitOf(body) ==
  IF "max_tokens" \in DOMAIN body THEN body.max_tokens ELSE body.max_tokens_to_sample

\* C22: every payload a request sends carries max_tokens 2000 when the request
\* gave none or zero and temperature 0.7 when it gave none or zero; any other
\* value is carried as the request gave it.
C22_DefaultsApplied ==
  \A c \in Clients :
    gen[c].route = "POST /generate" =>
      \A k \in 1..Len(gen[c].invoked) :
        /\ TokenLimitOf(gen[c].invoked[k].Body) =
             (IF gen[c].req.MaxTokens = 0 THEN 2000 ELSE gen[c].req.MaxTokens)
        /\ gen[c].invoked[k].Body.temperature =
             (IF gen[c].req.Temperature = 0 THEN 7 ELSE gen[c].req.Temperature)

\* A request without max_tokens and with temperature 0.5 has sent its payload
\* to two candidates, each with 2000 and 0.5.
C22_Witness ==
  \E c \in Clients :
    /\ gen[c].req.MaxTokens = 0
    /\ gen[c].req.Temperature = 5
    /\ Len(gen[c].invoked) = 2
    /\ \A k \in 1..2 : /\ TokenLimitOf(gen[c].invoked[k].Body) = 2000
                        /\ gen[c].invoked[k].Body.temperature = 5

\* The calls of a request stay within its candidates: at most as many as
\* there are available models, each to another candidate, in list order, and
\* a finished request has succeeded at its last call or failed at every
\* candidate.
C23_CallsBounded ==
  \A c \in Clients :
    Selected(c) =>
      LET g == gen[c]
      IN /\ Len(g.invoked) <= NumAvailable(availableModels)
         /\ Len(g.invoked) <= Len(g.modelsToTry)
         /\ \A j, k \in 1..Len(g.invoked) : j # k => g.invoked[j].ModelId # g.invoked[k].ModelId
         /\ \A k \in 1..Len(g.invoked) : g.invoked[k].ModelId = g.modelsToTry[k].ID
         /\ g.pc = "done" =>
              \/ g.reply.status = 200 /\ Len(g.errs) = Len(g.invoked) - 1
              \/ /\ g.reply.status = 500
                 /\ Len(g.errs) = Len(g.modelsToTry)
                 /\ Len(g.invoked) = Len(g.modelsToTry)

\* The candidate list of a request in its loop is the one selected at entry.
C23_SelectsOnce ==
  \A c \in Clients :
    gen[c].pc = "calling" => gen'[c].modelsToTry = gen[c].modelsToTry

\* C23: a GenerateText invocation selects its candidates once, makes at most
\* as many remote calls as there are available models, none twice to the same
\* candidate, and, every remote call returning, ends in success or with all
\* its candidates failed.
C23_Terminates ==
  /\ []C23_CallsBounded
  /\ [][C23_SelectsOnce]_vars
  /\ \A c \in Clients : (gen[c].pc = "calling") ~> (gen[c].pc = "done")

\* A request has ended in failure after one call to each of two available
\* models.
C23_Witness ==
  \E c \in Clients :
    /\ Failed(c)
    /\ NumAvailable(availableModels) = 2
    /\ Len(gen[c].invoked) = 2
    /\ Len(gen[c].errs) = 2

\* The calls of the request of c that have not returned: those made, less
\* those that failed and the one that succeeded.
InFlight(c) ==
  Len(gen[c].invoked) - Len(gen[c].errs)
    - (IF gen[c].pc = "done" /\ gen[c].reply.status = 200 THEN 1 ELSE 0)

\* A step in which the request of c starts a further call.
StartsNextCall(c) ==
  /\ gen[c].pc = "calling"
  /\ Len(gen'[c].invoked) > Len(gen[c].invoked)

\* One call is in flight while the request is in its loop, none otherwise.
C24_AtMostOne ==
  \A c \in Clients :
    gen[c].route = "POST /generate" =>
      InFlight(c) = (IF gen[c].pc = "calling" THEN 1 ELSE 0)

\* A further call starts in the step that records the failure of the current
\* one, and goes to the next candidate.
C24_NextAfterFailure ==
  \A c \in Clients :
    StartsNextCall(c) =>
      /\ Len(gen'[c].invoked) = Len(gen[c].invoked) + 1
      /\ Len(gen'[c].errs) = Len(gen[c].errs) + 1
      /\ gen'[c].errs[Len(gen'[c].errs)] = gen'[c].lastError
      /\ gen'[c].idx = gen[c].idx + 1

\* C24: a request has at most one remote call in flight, none once it has
\* answered, and the call to the next candidate starts in the step in which
\* the call to the current one returns and fails.
C24_OneCallInFlight == []C24_AtMostOne /\ [][C24_NextAfterFailure]_vars

\* The call to the second candidate is in flight, the first having failed.
C24_Witness ==
  \E c \in Clients :
    /\ gen[c].pc = "calling"
    /\ Len(gen[c].invoked) = 2
    /\ Len(gen[c].errs) = 1
    /\ InFlight(c) = 1

(***************************************************************************)
(* Properties of concurrent requests and of the expiry of entries.         *)
(***************************************************************************)
\* The entry setEx leaves for a value.
FreshEntry(value) ==
  [present |-> TRUE, value |-> value, ttl |-> CacheTTL, age |-> 0,
   expired |-> FALSE, flushed |-> FALSE]

\* The step in which the write of c reaches the store.
Writes(c) == cs[c].pc = "setEx" /\ cs'[c].write = "ok"

\* A handler at an await can continue whatever the other handlers are doing.
C25_NoneBlocked ==
  \A c \in Clients :
    /\ cs[c].pc = "get" => ENABLED RedisGetReturns(c)
    /\ cs[c].pc = "post" =>
         ENABLED (AxiosPostReturns(c) \/ \E out \in InvokeResults : InvokeModelReturns(c, out))
    /\ cs[c].pc = "setEx" => ENABLED RedisSetExReturns(c)

\* A cache-enabled request that missed called downstream once, and wrote the
\* text it received when it received one.
C25_MissCallsAndWrites ==
  \A c \in Clients :
    (Answered(c) /\ cs[c].lookup = "miss") =>
      /\ cs[c].downstream = 1
      /\ (cs[c].bedrockResponse.status = 200 /\ cs[c].aiResponse # "") =>
           /\ cs[c].write = "ok"
           /\ cs[c].res = CacheReply(200, cs[c].aiResponse, FALSE, "")

\* A write leaves under the key the writer's own text as a fresh entry,
\* whatever was held; the other keys keep their entries.
C25_WriteReplaces ==
  \A c \in Clients :
    Writes(c) =>
      /\ store'[cs[c].cacheKey] = FreshEntry(cs[c].aiResponse)
      /\ \A k \in CacheKeys \ {cs[c].cacheKey} : store'[k] = store[k]

\* C25: concurrent cache-enabled requests for one prompt do not block each
\* other; each that misses calls downstream and writes its own result; the
\* entry held is the one written last, whole.
C25_LastWriterWins ==
  /\ [](C25_NoneBlocked /\ C25_MissCallsAndWrites)
  /\ [][C25_WriteReplaces]_vars

\* Two requests for one prompt both missed, received different texts and both
\* wrote; the entry is the text of one of them.
C25_Witness ==
  /\ \A c \in Clients :
       /\ Answered(c)
       /\ cs[c].prompt = SharedPrompt
       /\ cs[c].lookup = "miss"
       /\ cs[c].downstream = 1
       /\ cs[c].write = "ok"
  /\ cs["c1"].aiResponse # cs["c2"].aiResponse
  /\ store[getCacheKey(SharedPrompt)] = FreshEntry(cs["c2"].aiResponse)

\* The step in which the lookup of c is answered with an entry.
Hits(c) == cs[c].pc = "get" /\ cs'[c].lookup = "hit"

\* C26: a write for a key that holds an entry not yet expired replaces the
\* value and lets the entry expire one time-to-live after the write; a hit
\* returns the value and leaves the entry, its remaining time included, as
\* it is.
C26_WriteRestartsHitKeeps ==
  [][\A c \in Clients :
       /\ (Writes(c) /\ store[cs[c].cacheKey].present) =>
            /\ store'[cs[c].cacheKey].value = cs[c].aiResponse
            /\ store'[cs[c].cacheKey].ttl = CacheTTL
            /\ store'[cs[c].cacheKey].age = 0
       /\ Hits(c) =>
            /\ store' = store
            /\ cs'[c].res.response = store[cs[c].cacheKey].value]_vars

\* A write has replaced an entry with half its time left by another text
\* with the full time, and after half of that time a request was served the
\* entry, which keeps its remaining half.
C26_Witness ==
  \E c, d \in Clients :
    /\ c # d
    /\ Answered(c)
    /\ cs[c].write = "ok"
    /\ cs[c].replacedTtl = 1800
    /\ Answered(d)
    /\ cs[d].lookup = "hit"
    /\ cs[d].chained
    /\ cs[d].res.response = cs[c].aiResponse
    /\ store[cs[d].cacheKey].ttl = 1800
    /\ store[cs[d].cacheKey].age = 1800

\* The catalogue entry a call went to.
EntryOf(modelId) == CHOOSE i \in 1..Len(Catalogue) : Catalogue[i].ID = modelId

\* C27: the payload sent to a candidate with the MessageAPI flag carries the
\* system text, a messages list of one user turn holding the prompt, and
\* max_tokens; the payload sent to a candidate without the flag carries one
\* prompt string wrapping the prompt and max_tokens_to_sample; nothing but
\* the flag decides between the two shapes.
C27_ShapeFollowsFlag ==
  \A c \in Clients :
    gen[c].route = "POST /generate" =>
      \A k \in 1..Len(gen[c].invoked) :
        LET body == gen[c].invoked[k].Body
            model == Catalogue[EntryOf(gen[c].invoked[k].ModelId)]
        IN IF model.MessageAPI
             THEN /\ DOMAIN body =
                       {"anthropic_version", "max_tokens", "system", "messages", "temperature"}
                  /\ body.system = SystemPrompt
                  /\ body.messages = << [role |-> "user", content |-> gen[c].req.Prompt] >>
                  /\ body.max_tokens = gen[c].maxTokens
             ELSE /\ DOMAIN body = {"prompt", "max_tokens_to_sample", "temperature"}
                  /\ Len(body.prompt) = 3
                  /\ body.prompt[1] = EnhancedPrompt("")[1]
                  /\ body.prompt[2] = gen[c].req.Prompt
                  /\ body.prompt[3] = "\n\nAssistant:"
                  /\ body.max_tokens_to_sample = gen[c].maxTokens

\* One request has sent a structured payload to a first candidate and a
\* legacy payload to a second.
C27_Witness ==
  \E c \in Clients :
    /\ Len(gen[c].invoked) = 2
    /\ gen[c].modelsToTry[1].MessageAPI
    /\ ~gen[c].modelsToTry[2].MessageAPI
    /\ "messages" \in DOMAIN gen[c].invoked[1].Body
    /\ "max_tokens_to_sample" \in DOMAIN gen[c].invoked[2].Body

(***************************************************************************)
(* Properties of the catalogue and of the reports on it.                   *)
(***************************************************************************)
\* An entry without its Available flag.
Unflagged(m) == [ID |-> m.ID, Name |-> m.Name, MessageAPI |-> m.MessageAPI]

\* The catalogue, once built, holds the entries NewBedrockClient lists, in
\* that order, under pairwise distinct ids.
C28_SameEntries ==
  availableModels # << >> =>
    /\ Len(availableModels) = Len(Catalogue)
    /\ \A i \in 1..Len(availableModels) : Unflagged(availableModels[i]) = Unflagged(Catalogue[i])
    /\ \A i, j \in 1..Len(availableModels) :
         i # j => availableModels[i].ID # availableModels[j].ID

\* A step changes the built catalogue in Available flags at most, and only a
\* step of the probe run does; the steps of requests leave it as it is.
C28_OnlyFlagsChange ==
  /\ (availableModels # << >> /\ availableModels' # availableModels) =>
       /\ phase = "probing"
       /\ gen' = gen
       /\ Len(availableModels') = Len(availableModels)
       /\ \A i \in 1..Len(availableModels) :
            Unflagged(availableModels'[i]) = Unflagged(availableModels[i])
  /\ gen' # gen => availableModels' = availableModels

\* C28: in every reachable state the catalogue holds the same entries in the
\* same order with pairwise distinct ids; probing and generation change
\* nothing in it but Available flags.
C28_CatalogueFixed == []C28_SameEntries /\ [][C28_OnlyFlagsChange]_vars

\* After a probe run that found two models, the second and a later one, a
\* generate request has been answered by one of them.
C28_Witness ==
  /\ phase = "serving"
  /\ NumAvailable(availableModels) = 2
  /\ ~availableModels[1].Available
  /\ availableModels[2].Available
  /\ \E c \in Clients : Succeeded(c) /\ Len(gen[c].invoked) = 2

\* C29: GET /health reports the display names of the entries whose
\* Available flag is set, all of them and no other, in catalogue order; GET
\* /models reports every entry, in catalogue order, with the flag it has.
C29_ReportsFollowFlags ==
  \A c \in Clients :
    /\ (gen[c].pc = "done" /\ gen[c].route = "GET /health") =>
         LET at == Ascending(AvailableAt(availableModels))
             names == gen[c].reply.AvailableModels
         IN /\ gen[c].reply.status = 200
            /\ Len(names) = Len(at)
            /\ \A k \in 1..Len(at) : names[k] = Catalogue[at[k]].Name
    /\ (gen[c].pc = "done" /\ gen[c].route = "GET /models") =>
         LET models == gen[c].reply.models
         IN /\ gen[c].reply.status = 200
            /\ Len(models) = Len(Catalogue)
            /\ \A i \in 1..Len(Catalogue) :
                 /\ models[i].id = Catalogue[i].ID
                 /\ models[i].name = Catalogue[i].Name
                 /\ models[i].available = availableModels[i].Available

\* With the first entry unavailable and two later ones available, one caller
\* has the health report of two names and another the models report.
C29_Witness ==
  /\ phase = "serving"
  /\ ~availableModels[1].Available
  /\ NumAvailable(availableModels) = 2
  /\ gen["c1"].pc = "done"
  /\ gen["c1"].route = "GET /health"
  /\ Len(gen["c1"].reply.AvailableModels) = 2
  /\ gen["c2"].pc = "done"
  /\ gen["c2"].route = "GET /models"
  /\ \E i \in 1..Len(Catalogue) : gen["c2"].reply.models[i].available

(***************************************************************************)
(* Properties of the cache-service when generation yields no text.         *)
(***************************************************************************)
\* The downstream call of the request of c gave no text: no connection, an
\* error status, or a success with an empty response.
NoTextFromDownstream(c) ==
  /\ cs[c].route = "POST /generate"
  /\ cs[c].downstream = 1
  /\ cs[c].pc \in {"setEx", "done"}
  /\ cs[c].aiResponse = ""

\* A request whose downstream call gave no text attempts no write, and an
\* error status of the downstream service is the status of the answer.
C30_NoTextNoWrite ==
  \A c \in Clients :
    /\ NoTextFromDownstream(c) =>
         /\ cs[c].pc = "done"
         /\ cs[c].write = "none"
    /\ (Answered(c) /\ cs[c].bedrockResponse # NoReply /\ cs[c].bedrockResponse.status # 200) =>
         /\ cs[c].res.status = cs[c].bedrockResponse.status
         /\ cs[c].res.response = ""
         /\ cs[c].write = "none"
    /\ (Answered(c) /\ cs[c].prevFailed /\ cs[c].useCache /\ cs[c].lookup # "error") =>
         /\ cs[c].lookup = "miss"
         /\ cs[c].downstream = 1

\* An entry comes to be held, or to hold another value, only through the
\* write of a request that received a text.
C30_EntriesFromTexts ==
  \A k \in CacheKeys :
    (store'[k].present /\ (~store[k].present \/ store'[k].value # store[k].value)) =>
      \E c \in Clients :
        /\ Writes(c)
        /\ cs[c].cacheKey = k
        /\ cs[c].bedrockResponse.status = 200
        /\ cs[c].aiResponse # ""
        /\ store'[k].value = cs[c].aiResponse

\* C30: a request whose downstream generation failed or returned an empty
\* response writes no cache entry; when the downstream service answered with
\* an error status the caller receives that status; the identical request
\* that follows misses and calls downstream again.
C30_FailureNotCached == []C30_NoTextNoWrite /\ [][C30_EntriesFromTexts]_vars

\* A request answered with the 500 of the downstream service follows an
\* identical one that ended without a text: it missed and called downstream.
C30_Witness ==
  \E c \in Clients :
    /\ Answered(c)
    /\ cs[c].useCache
    /\ cs[c].prevFailed
    /\ cs[c].lookup = "miss"
    /\ cs[c].downstream = 1
    /\ cs[c].bedrockResponse.status = 500
    /\ cs[c].res.status = 500
    /\ ~store[cs[c].cacheKey].present

(***************************************************************************)
(* Properties of preferences that select nothing, and of the snapshot.     *)
(***************************************************************************)
\* The request of c names a preference that no available entry matches.
UnmatchedPreference(c) ==
  /\ Selected(c)
  /\ gen[c].req.Model # ""
  /\ MatchingEntries(gen[c].req.Model) \cap AvailableAt(availableModels) = {}

\* C31: a preference that matches no available entry is no error: the
\* candidates are the available entries in catalogue order, the list a
\* request without preference gets, and the request fails only when no model
\* is available or every candidate failed.
C31_UnmatchedPreferenceIgnored ==
  \A c \in Clients :
    UnmatchedPreference(c) =>
      LET list == gen[c].modelsToTry
          want == Ascending(AvailableAt(availableModels))
      IN /\ list = ModelsToTry(availableModels, "")
         /\ Len(list) = Len(want)
         /\ \A k \in 1..Len(list) : list[k] = availableModels[want[k]]
         /\ want # << >> => /\ Len(gen[c].invoked) >= 1
                            /\ gen[c].invoked[1].ModelId = availableModels[want[1]].ID
         /\ Failed(c) =>
              \/ want = << >> /\ gen[c].reply.err = NoModelsErr
              \/ want # << >> /\ Len(gen[c].errs) = Len(want)

\* A request preferring "Haiku" while neither Haiku entry is available has
\* tried the two available models and been answered by the second.
C31_Witness ==
  \E c \in Clients :
    /\ UnmatchedPreference(c)
    /\ gen[c].req.Model = "Haiku"
    /\ Len(gen[c].modelsToTry) = 2
    /\ Succeeded(c)
    /\ Len(gen[c].invoked) = 2

\* The catalogue entry of candidate k of the request of c, as it is now.
LiveEntry(c, k) == availableModels[EntryOf(gen[c].modelsToTry[k].ID)]

\* The list a request goes on to try is the one it selected: its calls go to
\* the candidates of the list in order, whatever the flags have become, and
\* it fails only after a call to each of them.
C32_TriesItsList ==
  \A c \in Clients :
    Selected(c) =>
      /\ \A k \in 1..Len(gen[c].modelsToTry) : gen[c].modelsToTry[k].Available
      /\ Len(gen[c].invoked) <= Len(gen[c].modelsToTry)
      /\ \A k \in 1..Len(gen[c].invoked) : gen[c].invoked[k].ModelId = gen[c].modelsToTry[k].ID
      /\ (gen[c].pc = "calling" \/ Succeeded(c)) => Len(gen[c].invoked) = Len(gen[c].errs) + 1
      /\ Failed(c) => Len(gen[c].invoked) = Len(gen[c].modelsToTry)

\* Selection reads the flags as they are at that step, and no later step,
\* a change of flags included, changes the list of a request in its loop.
C32_ListKept ==
  \A c \in Clients :
    /\ (gen[c].pc = "idle" /\ gen'[c].route = "POST /generate" /\ gen'[c].req.Prompt # "") =>
         gen'[c].modelsToTry = ModelsToTry(availableModels, gen'[c].req.Model)
    /\ gen[c].pc = "calling" => gen'[c].modelsToTry = gen[c].modelsToTry

\* C32: the candidate list of an invocation is a copy taken at selection: a
\* change of Available flags after selection takes no candidate from the list
\* the invocation goes on to try and adds none to it.
C32_SnapshotAtSelection == []C32_TriesItsList /\ [][C32_ListKept]_vars

\* During the first call of a request that selected one candidate the flags
\* changed; the request has since failed after that one call, while the
\* catalogue marks its candidate unavailable and another entry available.
C32_WitnessAdded ==
  \E c \in Clients :
    /\ Failed(c)
    /\ gen[c].staleAt = 1
    /\ Len(gen[c].modelsToTry) = 1
    /\ Len(gen[c].invoked) = 1
    /\ ~LiveEntry(c, 1).Available
    /\ NumAvailable(availableModels) = 1

\* During the first call of a request that selected two candidates the flags
\* changed; the second call was made although the catalogue marks that
\* candidate unavailable.
C32_Witness ==
  \E c \in Clients :
    /\ gen[c].pc = "calling"
    /\ gen[c].staleAt = 1
    /\ Len(gen[c].invoked) = 2
    /\ ~LiveEntry(c, 2).Available

(***************************************************************************)
(* Properties of what the cache-service forwards.                          *)
(***************************************************************************)
\* The multi-model service is handling the post the cache-service made for
\* the request of c.
ForwardedRequest(c) ==
  /\ build = "multiModel"
  /\ cs[c].pc = "post"
  /\ gen[c].route = "POST /generate"

\* C33: whatever model, max_tokens or temperature the caller of the
\* cache-service sent, the generation service receives the prompt alone:
\* GenerateText runs for that prompt with no preferred model, selects its
\* candidates as for no preference, and sends max_tokens 2000 and
\* temperature 0.7 to every candidate.
C33_OnlyPromptForwarded ==
  \A c \in Clients :
    ForwardedRequest(c) =>
      /\ gen[c].req = GenerateRequest(cs[c].prompt, "", 0, 0)
      /\ gen[c].maxTokens = 2000
      /\ gen[c].temperature = 7
      /\ gen[c].modelsToTry = ModelsToTry(availableModels, "")
      /\ \A k \in 1..Len(gen[c].invoked) :
           /\ TokenLimitOf(gen[c].invoked[k].Body) = 2000
           /\ gen[c].invoked[k].Body.temperature = 7

\* A caller asked the cache-service for 100 tokens; the payload sent to the
\* first candidate carries 2000.
C33_Witness ==
  \E c \in Clients :
    /\ ForwardedRequest(c)
    /\ cs[c].params = GenerateParams(100, 0, "")
    /\ gen[c].pc = "calling"
    /\ Len(gen[c].invoked) = 1
    /\ TokenLimitOf(gen[c].invoked[1].Body) = 2000

\* A caller asked the cache-service for the model "Haiku"; GenerateText runs
\* with no preference.
C33_WitnessModel ==
  \E c \in Clients :
    /\ ForwardedRequest(c)
    /\ cs[c].params.model = "Haiku"
    /\ gen[c].pc = "calling"
    /\ gen[c].req.Model = ""

====
